---- MODULE Spec2Model ----
(***************************************************************************)
(* TUID service (tuid/service.py): allocation of line identifiers, the     *)
(* annotation store, the frontier table, the diff applier, initial         *)
(* acquisition and frontier moves.                                         *)
(*                                                                         *)
(* The specifications of this module:                                     *)
(*   SpecAlloc  - TUIDService.tuid() called by concurrent threads, at the  *)
(*                granularity of the lock, the read and the increment;     *)
(*   SpecDiff   - TUIDService._apply_diff applied to annotations and diffs *)
(*                drawn from bounded sets, next to the upstream file;      *)
(*   Spec       - concurrent get_tuids_from_files requests against a fixed *)
(*                upstream history (SpecRestart adds a process restart).   *)
(***************************************************************************)
EXTENDS Integers, Sequences, FiniteSets, TLC

VARIABLES
    \* ---- TUIDService fields and persisted tables
    next_tuid,        \* self.next_tuid
    temporal,         \* row (id=1) of table temporal: the persisted tuid, NoRow when empty
    annotations,      \* the annotations index: [revision, file] -> stored annotation
    latestFileMod,    \* table latestFileMod: file -> revision, NoRev when no row
    temporal_locker,  \* holder of self.temporal_locker, NoOne when free
    req,              \* per caller: the running get_tuids_from_files call
    nreq,             \* number of get_tuids_from_files calls started
    answered,         \* [revision, file] -> what the first completed call returned for it
    \* ---- SpecAlloc: threads inside tuid()
    locker,           \* holder of self.locker, NoOne when free
    tpc,              \* position of each thread inside tuid()
    tval,             \* per thread: the value read for `return self.next_tuid`
    tload,            \* per thread: the value loaded by `self.next_tuid += 1`
    returned,         \* sequence of the values tuid() has returned
    init_tuid,        \* next_tuid right after __init__
    \* ---- SpecDiff: one annotation walked through diffs
    d_ann,            \* list of TuidMap (tuid, line)
    d_file,           \* the (possibly renamed) file name
    d_lines,          \* the upstream file: sequence of line identities, as hg has it
    d_ann0,           \* the annotation the walk started from
    d_last,           \* the diff applied last, and what the call did
    d_steps,          \* number of changes applied
    \* ---- SpecAnn: threads inside _get_hg_annotate
    num_requests,         \* self.num_requests
    ann_threads_running,  \* self.ann_threads_running
    apc,                  \* position of each thread inside _get_hg_annotate
    atimeout,             \* per thread inside: whether its Till(ANN_WAIT_TIME) has fired
    \* ---- SpecDaemon: the thread of TUIDService._daemon
    daemon,               \* its position and its local variables
    please_stop,          \* the signal handed to _daemon
    \* ---- SpecFlow: the paths through get_tuids_from_files
    service_threads_running,  \* self.service_threads_running
    caching_signal,       \* self.clogger.caching_signal._go
    flow,                 \* the caller's position and the parameters of its call
    workers,              \* etl -> number of running update_tuids_in_thread threads
    \* ---- SpecPy: mo_threads.Python, the proxy of a python subprocess
    proxy,                \* lock, current_task, current_response, current_error, pipes
    py,                   \* per thread: its position inside _execute
    reader                \* the thread of Python._daemon

svcVars   == <<temporal, annotations, latestFileMod, temporal_locker, req, nreq, answered>>
allocVars == <<locker, tpc, tval, tload, returned, init_tuid>>
diffVars  == <<d_ann, d_file, d_lines, d_ann0, d_last, d_steps>>
annVars   == <<num_requests, ann_threads_running, apc, atimeout>>
daemonVars == <<daemon, please_stop>>
flowVars  == <<service_threads_running, caching_signal, flow, workers>>
pyVars    == <<proxy, py, reader>>
extVars   == <<daemonVars, flowVars, pyVars>>
vars      == <<next_tuid, svcVars, allocVars, diffVars, annVars, extVars>>

\* __init__ (lines 83-84), with no thread inside _get_hg_annotate
NoAnnThreads ==
    /\ num_requests = 0
    /\ ann_threads_running = 0
    /\ apc = <<>>
    /\ atimeout = <<>>

\* no daemon thread
NoDaemon ==
    /\ daemon = <<>>
    /\ please_stop = FALSE

\* no call of get_tuids_from_files is followed through its paths
NoFlow ==
    /\ service_threads_running = 0
    /\ caching_signal = TRUE
    /\ flow = <<>>
    /\ workers = <<>>

\* no python subprocess
NoPy ==
    /\ proxy = <<>>
    /\ py = <<>>
    /\ reader = <<>>

NoExt == NoDaemon /\ NoFlow /\ NoPy

NoOne == 0
NoRow == 0

(***************************************************************************)
(* Bounds                                                                  *)
(***************************************************************************)
NumThreads == 2       \* threads calling tuid()
MaxCalls == 2         \* tuid() calls per thread
MaxInitTuid == 2      \* values of max(tuid) found in the temporal table at startup

Threads == 1..NumThreads

(***************************************************************************)
(* SpecAlloc: TUIDService.tuid                                             *)
(*     with self.locker:                                                   *)
(*         try:     return self.next_tuid                                  *)
(*         finally: self.next_tuid += 1                                    *)
(***************************************************************************)
ncalls(t) == Len(SelectSeq(returned, LAMBDA r : r.thread = t))

\* `with self.locker` entered without taking the lock
tuid_enter_nolock(t) ==
    /\ tpc[t] = "idle"
    /\ ncalls(t) < MaxCalls
    /\ tpc' = [tpc EXCEPT ![t] = "read"]
    /\ UNCHANGED <<locker, next_tuid, tval, tload, returned, init_tuid>>

tuid_enter(t) ==
    /\ tpc[t] = "idle"
    /\ ncalls(t) < MaxCalls
    /\ locker = NoOne
    /\ locker' = t
    /\ tpc' = [tpc EXCEPT ![t] = "read"]
    /\ UNCHANGED <<next_tuid, tval, tload, returned, init_tuid>>

tuid_read(t) ==
    /\ tpc[t] = "read"
    /\ tval' = [tval EXCEPT ![t] = next_tuid]
    /\ tpc' = [tpc EXCEPT ![t] = "load"]
    /\ UNCHANGED <<locker, next_tuid, tload, returned, init_tuid>>

tuid_load(t) ==
    /\ tpc[t] = "load"
    /\ tload' = [tload EXCEPT ![t] = next_tuid]
    /\ tpc' = [tpc EXCEPT ![t] = "store"]
    /\ UNCHANGED <<locker, next_tuid, tval, returned, init_tuid>>

tuid_store(t) ==
    /\ tpc[t] = "store"
    /\ next_tuid' = tload[t] + 1
    /\ tpc' = [tpc EXCEPT ![t] = "exit"]
    /\ UNCHANGED <<locker, tval, tload, returned, init_tuid>>

tuid_exit(t) ==
    /\ tpc[t] = "exit"
    /\ locker' = IF locker = t THEN NoOne ELSE locker
    /\ returned' = Append(returned, [thread |-> t, tuid |-> tval[t]])
    /\ tpc' = [tpc EXCEPT ![t] = "idle"]
    /\ UNCHANGED <<next_tuid, tval, tload, init_tuid>>

(***************************************************************************)
(* Annotations in memory and in the index                                  *)
(***************************************************************************)
MISSING == -1

TuidMap(tuid, line) == [tuid |-> tuid, line |-> line]

\* destringify_tuids: [TuidMap(tuid, line + 1) for line, tuid in enumerate(tuids_list)]
destringify_tuids(tuids_list) ==
    [i \in 1..Len(tuids_list) |-> TuidMap(tuids_list[i], i)]

RECURSIVE InsertByLine(_, _)
InsertByLine(x, sorted) ==
    IF sorted = <<>> THEN <<x>>
    ELSE IF x.line < Head(sorted).line THEN <<x>> \o sorted
    ELSE <<Head(sorted)>> \o InsertByLine(x, Tail(sorted))

\* list.sort(key=lambda x: x.line), a stable sort
RECURSIVE SortByLine(_)
SortByLine(lines) ==
    IF lines = <<>> THEN <<>>
    ELSE InsertByLine(lines[Len(lines)], SortByLine(SubSeq(lines, 1, Len(lines) - 1)))

RECURSIVE FillOrdered(_, _)
FillOrdered(ordered, todo) ==
    IF todo = <<>> THEN ordered
    ELSE LET n   == Len(ordered)
             idx == Head(todo).line - 1
             pos == IF idx >= 0 THEN idx + 1 ELSE n + idx + 1
         IN  IF idx >= n \/ idx < -n THEN <<"IndexError">>
             ELSE FillOrdered([ordered EXCEPT ![pos] = Head(todo).tuid], Tail(todo))

\* stringify_tuids: ordered_tuid = [-1] * len; ordered_tuid[line - 1] = tuid
stringify_tuids(tuid_list) ==
    FillOrdered([i \in 1..Len(tuid_list) |-> MISSING], SortByLine(tuid_list))

(***************************************************************************)
(* TUIDService._apply_diff                                                 *)
(***************************************************************************)
DEVNULL == "dev/null"

Min(a, b) == IF a < b THEN a ELSE b

Slice(s, from, to) ==  \* python s[from:to], 0 <= from
    SubSeq(s, from + 1, Min(to, Len(s)))

\* the entries behind the change keep their line numbers
Renumber_kept(lines, by) == lines

Renumber(lines, by) ==
    [i \in 1..Len(lines) |-> TuidMap(lines[i].tuid, lines[i].line + by)]

\* add_one with the new entry placed one position late: lines[:start] ...
add_one_late(tl_tuple, lines) ==
    LET start == tl_tuple.line
    IN  Slice(lines, 0, start) \o <<tl_tuple>>
        \o Renumber(Slice(lines, start, Len(lines)), 1)

add_one(tl_tuple, lines) ==
    LET start == tl_tuple.line
    IN  Slice(lines, 0, start - 1) \o <<tl_tuple>>
        \o Renumber(Slice(lines, start - 1, Len(lines)), 1)

\* remove_one dropping the entry after the one asked for
remove_one_late(start, lines) ==
    Slice(lines, 0, start) \o Renumber(Slice(lines, start + 1, Len(lines)), -1)

remove_one(start, lines) ==
    Slice(lines, 0, start - 1) \o Renumber(Slice(lines, start, Len(lines)), -1)

\* for change in f_diff: ... ; st = [ann, next, n] (n: len(list_to_insert))
RECURSIVE apply_changes(_, _)
apply_changes(f_diff, st) ==
    IF f_diff = <<>> THEN st
    ELSE LET change == Head(f_diff)
         IN  IF change.action = "+"
             THEN apply_changes(Tail(f_diff),
                      [ann  |-> add_one(TuidMap(st.next, change.line + 1), st.ann),
                       next |-> st.next + 1,
                       n    |-> st.n + 1])
             ELSE IF change.action = "-"
             THEN apply_changes(Tail(f_diff),
                      [st EXCEPT !.ann = remove_one(change.line + 1, st.ann)])
             ELSE apply_changes(Tail(f_diff), st)

\* for f_proc in diff["diffs"]: the first entry naming the file decides
RECURSIVE apply_entries(_, _, _, _)
apply_entries(entries, new_ann, file, next) ==
    IF entries = <<>>
    THEN [ann |-> new_ann, file |-> file, next |-> next, n |-> 0]
    ELSE LET f_proc == Head(entries)
         IN  IF f_proc.new # file /\ f_proc.old # file
             THEN apply_entries(Tail(entries), new_ann, file, next)
             ELSE IF f_proc.old # f_proc.new /\ f_proc.new = DEVNULL
             THEN [ann |-> <<>>, file |-> file, next |-> next, n |-> 0]
             ELSE LET st == apply_changes(f_proc.changes,
                                [ann |-> new_ann, next |-> next, n |-> 0])
                  IN  [ann |-> st.ann, file |-> f_proc.new, next |-> st.next, n |-> st.n]

\* _apply_diff ignoring the merge flag
apply_diff_no_merge_filter(annotation, diff, file, next) ==
    IF file = DEVNULL
    THEN [ann |-> <<>>, file |-> file, next |-> next, n |-> 0]
    ELSE apply_entries(diff.diffs, SortByLine(annotation), file, next)

\* _apply_diff(annotation, diff, cset, file): [ann, file] is what it returns,
\* next the counter after its tuid() calls, n > 0 iff it calls _insert_max_tuid
apply_diff_(annotation, diff, file, next) ==
    IF diff.merge
    THEN [ann |-> annotation, file |-> file, next |-> next, n |-> 0]
    ELSE IF file = DEVNULL
    THEN [ann |-> <<>>, file |-> file, next |-> next, n |-> 0]
    ELSE apply_entries(diff.diffs, SortByLine(annotation), file, next)

\* _insert_max_tuid: INSERT OR REPLACE INTO temporal (id, tuid) VALUES (1, next_tuid)
insert_max_tuid(next) == next

(***************************************************************************)
(* The upstream file, as hg has it: a sequence of line identities.  A      *)
(* change {action, line} of a changeset edits the file at 0-based index    *)
(* `line`, the changes of one file taken in the order given.  Lines of the *)
(* identity of a line is <<r, k>>: the k-th line that changeset number r    *)
(* added.  The diff reported for a merge changeset repeats changes that    *)
(* other changesets of the log already made.                               *)
(***************************************************************************)
RECURSIVE HgChanges(_, _, _, _)
HgChanges(lines, changes, r, k) ==
    IF changes = <<>> THEN lines
    ELSE LET c == Head(changes)
         IN  IF c.action = "+"
             THEN HgChanges(SubSeq(lines, 1, c.line) \o << <<r, k>> >>
                            \o SubSeq(lines, c.line + 1, Len(lines)), Tail(changes), r, k + 1)
             ELSE HgChanges(SubSeq(lines, 1, c.line)
                            \o SubSeq(lines, c.line + 2, Len(lines)), Tail(changes), r, k)

Names(entries) == {entries[i].old : i \in 1..Len(entries)}
                  \cup {entries[i].new : i \in 1..Len(entries)}

EntryOf(entries, file) ==
    entries[CHOOSE i \in 1..Len(entries) :
               /\ file \in {entries[i].old, entries[i].new}
               /\ \A j \in 1..(i - 1) : file \notin {entries[j].old, entries[j].new}]

\* the file after changeset number r: [lines, file]
HgFile(lines, file, diff, r) ==
    IF diff.merge \/ file \notin Names(diff.diffs)
    THEN [lines |-> lines, file |-> file, present |-> TRUE]
    ELSE LET e == EntryOf(diff.diffs, file)
         IN  IF e.new = DEVNULL THEN [lines |-> <<>>, file |-> file, present |-> FALSE]
             ELSE [lines |-> HgChanges(lines, e.changes, r, 1), file |-> e.new,
                   present |-> TRUE]

(***************************************************************************)
(* SpecDiff: a walk of _apply_diff over diffs drawn from bounded sets      *)
(***************************************************************************)
MaxLen0 == 2       \* lines of the file at the revision the walk starts from
MaxWork == 3       \* changes applied per walk (a diff without changes counts as one)

ChangesAt(len) ==
    {[action |-> "+", line |-> i] : i \in 0..len}
    \cup {[action |-> "-", line |-> i] : i \in 0..(len - 1)}

LenAfter(len, c) == IF c.action = "+" THEN len + 1 ELSE len - 1

\* change lists of at most k changes that hg can report for a file of len lines
RECURSIVE ChangeLists(_, _)
ChangeLists(len, k) ==
    IF k = 0 THEN {<<>>}
    ELSE {<<>>} \cup UNION {{<<c>> \o rest : rest \in ChangeLists(LenAfter(len, c), k - 1)}
                            : c \in ChangesAt(len)}

OtherEntry == [old |-> "c", new |-> "c", changes |-> <<[action |-> "+", line |-> 0]>>]

OtherName(file) == IF file = "a" THEN "b" ELSE "a"

Cost(cs) == IF Len(cs) = 0 THEN 1 ELSE Len(cs)

DoApplyDiff(kind, diff, cost) ==
    LET r  == apply_diff_(d_ann, diff, d_file, next_tuid)
        hg == HgFile(d_lines, d_file, diff, d_steps + 1)
    IN  /\ d_steps + cost <= MaxWork
        /\ d_ann' = r.ann
        /\ d_file' = r.file
        /\ next_tuid' = r.next
        /\ temporal' = IF r.n > 0 THEN insert_max_tuid(r.next) ELSE temporal
        /\ d_lines' = hg.lines
        /\ d_last' = [kind |-> kind, ann |-> d_ann, file |-> d_file, diff |-> diff,
                      next |-> next_tuid, temporal |-> temporal, hgfile |-> hg.file]
        /\ d_steps' = d_steps + cost
        /\ UNCHANGED <<d_ann0, annotations, latestFileMod, temporal_locker, req, nreq, answered,
                       allocVars, annVars, extVars>>

\* the changeset edits the file in place
DiffEdit ==
    \E cs \in ChangeLists(Len(d_lines), MaxWork - d_steps) \ {<<>>} :
        DoApplyDiff("edit", [merge |-> FALSE,
                             diffs |-> <<[old |-> d_file, new |-> d_file, changes |-> cs]>>],
                    Cost(cs))

\* the changeset renames the file, and may edit it
DiffRename ==
    \E cs \in ChangeLists(Len(d_lines), 1) :
        DoApplyDiff("rename", [merge |-> FALSE,
                               diffs |-> <<[old |-> d_file, new |-> OtherName(d_file),
                                            changes |-> cs]>>],
                    Cost(cs))

\* the changeset removes the file
DiffDelete ==
    DoApplyDiff("delete", [merge |-> FALSE,
                           diffs |-> <<[old |-> d_file, new |-> DEVNULL, changes |-> <<>>]>>],
                1)

\* the changeset edits another file before this one
DiffSecondEntry ==
    \E cs \in ChangeLists(Len(d_lines), 1) :
        DoApplyDiff("second", [merge |-> FALSE,
                               diffs |-> <<OtherEntry,
                                           [old |-> d_file, new |-> d_file, changes |-> cs]>>],
                    Cost(cs))

\* the changeset does not mention the file
DiffOther ==
    DoApplyDiff("other", [merge |-> FALSE, diffs |-> <<OtherEntry>>], 1)

\* a merge changeset, whose diff mentions the file
DiffMerge ==
    \E cs \in ChangeLists(Len(d_lines), 1) :
        DoApplyDiff("merge", [merge |-> TRUE,
                              diffs |-> <<[old |-> d_file, new |-> d_file, changes |-> cs]>>],
                    1)

InitDiff ==
    /\ \E n \in 0..MaxLen0 :
        /\ d_lines = [i \in 1..n |-> <<0, i>>]
        /\ d_ann0 = [i \in 1..n |-> TuidMap(n + 1 - i, i)]
        /\ d_ann = [i \in 1..n |-> TuidMap(n + 1 - i, i)]
        /\ next_tuid = n + 1
        /\ temporal = n + 1
    /\ d_file = "a"
    /\ d_last = [kind |-> "none"]
    /\ d_steps = 0
    /\ annotations = <<>> /\ latestFileMod = <<>> /\ temporal_locker = NoOne
    /\ req = <<>> /\ nreq = 0 /\ answered = <<>>
    /\ locker = NoOne /\ tpc = <<>> /\ tval = <<>> /\ tload = <<>>
    /\ returned = <<>> /\ init_tuid = 0
    /\ NoAnnThreads
    /\ NoExt

NextDiff ==
    DiffEdit \/ DiffRename \/ DiffDelete \/ DiffSecondEntry \/ DiffOther \/ DiffMerge

SpecDiff == InitDiff /\ [][NextDiff]_vars

(***************************************************************************)
(* SpecAlloc                                                               *)
(***************************************************************************)
\* self.next_tuid = coalesce(SELECT max(tuid) FROM temporal, 1)
init_next_tuid(row) == IF row = NoRow THEN 1 ELSE row

InitAlloc ==
    /\ temporal \in 0..MaxInitTuid
    /\ next_tuid = init_next_tuid(temporal)
    /\ init_tuid = next_tuid
    /\ locker = NoOne
    /\ tpc = [t \in Threads |-> "idle"]
    /\ tval = [t \in Threads |-> 0]
    /\ tload = [t \in Threads |-> 0]
    /\ returned = <<>>
    /\ annotations = <<>> /\ latestFileMod = <<>> /\ temporal_locker = NoOne
    /\ req = <<>> /\ nreq = 0 /\ answered = <<>>
    /\ d_ann = <<>> /\ d_file = "" /\ d_lines = <<>> /\ d_ann0 = <<>>
    /\ d_last = [kind |-> "none"] /\ d_steps = 0
    /\ NoAnnThreads
    /\ NoExt

NextAlloc ==
    \E t \in Threads :
        \/ tuid_enter(t) /\ UNCHANGED <<svcVars, diffVars, annVars, extVars>>
        \/ tuid_read(t) /\ UNCHANGED <<svcVars, diffVars, annVars, extVars>>
        \/ tuid_load(t) /\ UNCHANGED <<svcVars, diffVars, annVars, extVars>>
        \/ tuid_store(t) /\ UNCHANGED <<svcVars, diffVars, annVars, extVars>>
        \/ tuid_exit(t) /\ UNCHANGED <<svcVars, diffVars, annVars, extVars>>

SpecAlloc == InitAlloc /\ [][NextAlloc]_vars

(***************************************************************************)
(* SpecAnn: threads inside _get_hg_annotate (lines 264-320), waiting for   *)
(* room among the requests to hg                                           *)
(***************************************************************************)
NumAnnThreads == 6      \* threads started by get_tuids, one per file

AnnThreads == 1..NumAnnThreads

MAX_CONCURRENT_ANN_REQUESTS == 5

\* room that is always found
has_room_always(n) == TRUE

\* line 279: if num_requests < MAX_CONCURRENT_ANN_REQUESTS
has_room(n) == n < MAX_CONCURRENT_ANN_REQUESTS

\* lines 266-275: the thread is counted and its timeout is started
ann_enter(t) ==
    /\ apc[t] = "idle"
    /\ apc' = [apc EXCEPT ![t] = "loop"]
    /\ ann_threads_running' = ann_threads_running + 1
    /\ UNCHANGED <<num_requests, atimeout>>

\* Till(seconds=ANN_WAIT_TIME.seconds) fires, at any time before the thread
\* looks at it for the last time (line 291)
ann_timeout(t) ==
    /\ apc[t] \in {"loop", "slot"}
    /\ ~atimeout[t]
    /\ atimeout' = [atimeout EXCEPT ![t] = TRUE]
    /\ UNCHANGED <<num_requests, ann_threads_running, apc>>

\* lines 276-281: one turn of the loop under request_locker that finds room;
\* a turn that finds none waits MAX_ANN_REQUESTS_WAIT_TIME and comes back
ann_take(t) ==
    /\ apc[t] = "loop"
    /\ ~atimeout[t]
    /\ has_room(num_requests)
    /\ num_requests' = num_requests + 1
    /\ apc' = [apc EXCEPT ![t] = "slot"]
    /\ UNCHANGED <<ann_threads_running, atimeout>>

\* lines 276 and 312-319: the loop ends on the timeout and the thread leaves
ann_give_up(t) ==
    /\ apc[t] = "loop"
    /\ atimeout[t]
    /\ apc' = [apc EXCEPT ![t] = "done"]
    /\ ann_threads_running' = ann_threads_running - 1
    /\ atimeout' = [atimeout EXCEPT ![t] = FALSE]
    /\ UNCHANGED num_requests

\* lines 291-292: if not timeout, the request is sent
ann_request(t) ==
    /\ apc[t] = "slot"
    /\ ~atimeout[t]
    /\ apc' = [apc EXCEPT ![t] = "http"]
    /\ UNCHANGED <<num_requests, ann_threads_running, atimeout>>

\* lines 291 and 312-319: the timeout fired after the break of line 281, and
\* the thread leaves through the else branch
ann_leave_late(t) ==
    /\ apc[t] = "slot"
    /\ atimeout[t]
    /\ apc' = [apc EXCEPT ![t] = "done"]
    /\ ann_threads_running' = ann_threads_running - 1
    /\ atimeout' = [atimeout EXCEPT ![t] = FALSE]
    /\ UNCHANGED num_requests

\* lines 309-311 and 318-319: the finally clause, whatever the answer was
ann_release(t) ==
    /\ apc[t] = "http"
    /\ num_requests' = num_requests - 1
    /\ apc' = [apc EXCEPT ![t] = "done"]
    /\ ann_threads_running' = ann_threads_running - 1
    /\ UNCHANGED atimeout

InitAnn ==
    /\ num_requests = 0
    /\ ann_threads_running = 0
    /\ apc = [t \in AnnThreads |-> "idle"]
    /\ atimeout = [t \in AnnThreads |-> FALSE]
    /\ next_tuid = 1 /\ temporal = NoRow
    /\ annotations = <<>> /\ latestFileMod = <<>> /\ temporal_locker = NoOne
    /\ req = <<>> /\ nreq = 0 /\ answered = <<>>
    /\ locker = NoOne /\ tpc = <<>> /\ tval = <<>> /\ tload = <<>>
    /\ returned = <<>> /\ init_tuid = 1
    /\ d_ann = <<>> /\ d_file = "" /\ d_lines = <<>> /\ d_ann0 = <<>>
    /\ d_last = [kind |-> "none"] /\ d_steps = 0
    /\ NoExt

NextAnn ==
    \E t \in AnnThreads :
        \/ ann_enter(t) /\ UNCHANGED <<next_tuid, svcVars, allocVars, diffVars, extVars>>
        \/ ann_timeout(t) /\ UNCHANGED <<next_tuid, svcVars, allocVars, diffVars, extVars>>
        \/ ann_take(t) /\ UNCHANGED <<next_tuid, svcVars, allocVars, diffVars, extVars>>
        \/ ann_give_up(t) /\ UNCHANGED <<next_tuid, svcVars, allocVars, diffVars, extVars>>
        \/ ann_request(t) /\ UNCHANGED <<next_tuid, svcVars, allocVars, diffVars, extVars>>
        \/ ann_leave_late(t) /\ UNCHANGED <<next_tuid, svcVars, allocVars, diffVars, extVars>>
        \/ ann_release(t) /\ UNCHANGED <<next_tuid, svcVars, allocVars, diffVars, extVars>>

SpecAnn == InitAnn /\ [][NextAnn]_vars

(***************************************************************************)
(* The upstream repository of Spec: a linear changelog.  Changeset 0 adds  *)
(* file a with three lines and the files c to g with one line each,       *)
(* changeset 1 adds a line after the first line of a and removes its last, *)
(* changeset 2 renames a to b.                                             *)
(***************************************************************************)
Files == {"a", "b", "c", "d", "e", "f", "g"}

Change(action, line) == [action |-> action, line |-> line]

Entry(old, new, changes) == [old |-> old, new |-> new, changes |-> changes]

HgLog == <<
    [merge |-> FALSE,
     diffs |-> <<Entry(DEVNULL, "a", <<Change("+", 0), Change("+", 1), Change("+", 2)>>),
                 Entry(DEVNULL, "c", <<Change("+", 0)>>),
                 Entry(DEVNULL, "d", <<Change("+", 0)>>),
                 Entry(DEVNULL, "e", <<Change("+", 0)>>),
                 Entry(DEVNULL, "f", <<Change("+", 0)>>),
                 Entry(DEVNULL, "g", <<Change("+", 0)>>)>>],
    [merge |-> FALSE, diffs |-> <<Entry("a", "a", <<Change("+", 1), Change("-", 3)>>)>>],
    [merge |-> FALSE, diffs |-> <<Entry("a", "b", <<>>)>>] >>

Revs == 0..(Len(HgLog) - 1)

\* _get_hg_diff(cset): {"diffs": changeset.moves, "merge": check_merge(description)}
get_hg_diff(cset) == HgLog[cset + 1]

Absent == [present |-> FALSE, lines |-> <<>>]

AddedBy(diff, g) ==
    {i \in 1..Len(diff.diffs) : diff.diffs[i].old = DEVNULL /\ diff.diffs[i].new = g}

\* the files of the repository at changeset r: file -> [present, lines]
RECURSIVE HgRepo(_)
HgRepo(r) ==
    IF r < 0 THEN [g \in Files |-> Absent]
    ELSE LET prev == HgRepo(r - 1)
             diff == get_hg_diff(r)
             after(f) == HgFile(prev[f].lines, f, diff, r)
             from(g) == {f \in Files : prev[f].present /\ after(f).present
                                       /\ after(f).file = g}
         IN  [g \in Files |->
                 IF from(g) # {}
                 THEN [present |-> TRUE, lines |-> after(CHOOSE f \in from(g) : TRUE).lines]
                 ELSE IF ~diff.merge /\ AddedBy(diff, g) # {}
                 THEN [present |-> TRUE,
                       lines |-> HgChanges(<<>>,
                                     diff.diffs[CHOOSE i \in AddedBy(diff, g) : TRUE].changes,
                                     r, 1)]
                 ELSE Absent]

HgRepoAt == [r \in Revs |-> HgRepo(r)]

(***************************************************************************)
(* The annotations index and the latestFileMod table                       *)
(***************************************************************************)
NoRev == -1

SQL_ANN_BATCH_SIZE == 5

NoAnn == [k |-> "null"]                      \* no document for the key
DummyAnn == [k |-> "dummy"]                  \* the dummy (rev, file, '')
ListAnn(tuids) == [k |-> "list", tuids |-> tuids]

\* _get_annotation asking for the file alone, whatever the revision
get_annotation_any_revision(store, rev, file) ==
    IF \E r \in Revs : store[<<r, file>>].k = "list"
    THEN store[<<CHOOSE r \in Revs : store[<<r, file>>].k = "list", file>>]
    ELSE store[<<rev, file>>]

\* _get_annotation(rev, file) against the index `store`
get_annotation(store, rev, file) == store[<<rev, file>>]

Truthy(ann) == ann.k = "list" /\ ann.tuids # <<>>      \* `if already_ann:`
IsDummy(ann) == ann.k = "dummy"                         \* `already_ann == ""`
IsNone(ann) == ann.k = "null"                           \* `tmp_ann == None`

\* destringify_tuids(annotation) of a stored annotation
lines_of(ann) == IF ann.k = "list" THEN destringify_tuids(ann.tuids) ELSE <<>>

\* an insert that the index drops
insert_annotation_dropped(store, revision, file, ann) == store

\* insert_annotations([(revision, file, annotation)]): the document's _id is
\* revision + file
insert_annotation(store, revision, file, ann) ==
    [store EXCEPT ![<<revision, file>>] = ann]

\* insert_annotate_dummy(rev, file_name)
insert_annotate_dummy(store, rev, file) ==
    IF store[<<rev, file>>].k # "null" THEN store
    ELSE insert_annotation(store, rev, file, DummyAnn)

\* INSERT OR REPLACE INTO latestFileMod (file, revision) for the files given
upsert_frontiers(table, files, revision) ==
    [f \in Files |-> IF f \in files THEN revision ELSE table[f]]

Range(seq) == {seq[i] : i \in 1..Len(seq)}

Pair(file, tuids) == [file |-> file, tuids |-> tuids]

\* the [] entries of `result = [[] for _ in range(...)]`
NotAPair == [file |-> "[]", tuids |-> <<>>]

RECURSIVE Repeat(_, _)
Repeat(x, n) == IF n = 0 THEN <<>> ELSE <<x>> \o Repeat(x, n - 1)

(***************************************************************************)
(* get_tuids_from_files: the classification pass (lines 524-603)           *)
(***************************************************************************)
\* `latest_rev == revision`: the row of latestFileMod compared with the
\* revision string
row_is_revision(latest_rev, revision) == FALSE

RECURSIVE classify(_, _, _)
classify(files, revision, acc) ==
    IF files = <<>> THEN acc
    ELSE LET file == Head(files)
             latest_rev == latestFileMod[file]
             already_ann == get_annotation(annotations, revision, file)
         IN  classify(Tail(files), revision,
                 IF Truthy(already_ann)
                 THEN [acc EXCEPT !.result = Append(@, Pair(file, lines_of(already_ann))),
                                  !.inserts = @ \cup {file}]
                 ELSE IF IsDummy(already_ann)
                 THEN [acc EXCEPT !.result = Append(@, Pair(file, <<>>)),
                                  !.inserts = @ \cup {file}]
                 ELSE IF latest_rev # NoRev /\ latest_rev # revision
                 THEN [acc EXCEPT !.frontier_update_list = Append(@, <<file, latest_rev>>)]
                 ELSE IF row_is_revision(latest_rev, revision)
                 THEN [acc EXCEPT !.deletes = @ \cup {file},
                                  !.new_files = Append(@, file)]
                 ELSE [acc EXCEPT !.new_files = Append(@, file)])

(***************************************************************************)
(* get_tuids / _get_hg_annotate / _get_tuids: initial acquisition          *)
(***************************************************************************)
\* a push to try: one draft changeset on top of changeset TryBase of the
\* branch; it edits a, adds b and removes c
TryRev == Len(HgLog)

TryBase == Len(HgLog) - 2

TryDraft ==
    [merge |-> FALSE,
     diffs |-> <<Entry("a", "a", <<Change("+", 0)>>),
                 Entry(DEVNULL, "b", <<Change("+", 0), Change("+", 1)>>),
                 Entry("c", DEVNULL, <<>>)>>]

\* the files of the try repository at the draft changeset
TryRepo ==
    LET prev == HgRepoAt[TryBase]
        after(f) == HgFile(prev[f].lines, f, TryDraft, TryRev)
    IN  [g \in Files |->
            IF prev[g].present /\ after(g).present
            THEN [present |-> TRUE, lines |-> after(g).lines]
            ELSE IF AddedBy(TryDraft, g) # {}
            THEN [present |-> TRUE,
                  lines |-> HgChanges(<<>>,
                                TryDraft.diffs[CHOOSE i \in AddedBy(TryDraft, g) : TRUE].changes,
                                TryRev, 1)]
            ELSE Absent]

\* _get_hg_annotate: the line count of raw-file/cset/file, 0 when the answer
\* is not 200
hg_line_count(cset, file) ==
    IF HgRepoAt[cset][file].present THEN Len(HgRepoAt[cset][file].lines) ELSE 0

\* a block of tuid() calls that never moves the counter
tuid_block_stuck(next, n) == [i \in 1..n |-> next]

\* for i in range(file_length): new_tuid = self.tuid()
tuid_block(next, n) == [i \in 1..n |-> next + i - 1]

\* the loop of _get_tuids without the look into the index under the lock
RECURSIVE get_tuids_loop_no_recheck(_, _, _, _)
get_tuids_loop_no_recheck(files, revision, failAt, st) ==
    IF files = <<>> THEN st
    ELSE LET file == Head(files)
             file_length == hg_line_count(revision, file)
             str_tuids == tuid_block(st.next, file_length)
         IN  IF failAt = 1
             THEN [st EXCEPT !.raised = TRUE]
             ELSE IF file_length = 0
             THEN get_tuids_loop_no_recheck(Tail(files), revision, failAt - 1,
                      [st EXCEPT !.store = insert_annotate_dummy(@, revision, file),
                                 !.results = Append(@, Pair(file, <<>>))])
             ELSE get_tuids_loop_no_recheck(Tail(files), revision, failAt - 1,
                      [st EXCEPT !.store = insert_annotation(@, revision, file,
                                                             ListAnn(str_tuids)),
                                 !.next = @ + file_length,
                                 !.results = Append(@, Pair(file,
                                                 destringify_tuids(str_tuids)))])

\* the loop of _get_tuids over files whose line counts were fetched; the
\* fetch of file number failAt left annotated_files[...] = [], and range([])
\* raises.  st = [store, next, results, raised]
RECURSIVE get_tuids_loop(_, _, _, _)
get_tuids_loop(files, revision, failAt, st) ==
    IF files = <<>> THEN st
    ELSE LET file == Head(files)
             tmp_ann == get_annotation(st.store, revision, file)
             file_length == hg_line_count(revision, file)
             str_tuids == tuid_block(st.next, file_length)
         IN  IF ~IsNone(tmp_ann)
             THEN get_tuids_loop(Tail(files), revision, failAt - 1,
                      [st EXCEPT !.results = Append(@, Pair(file, lines_of(tmp_ann)))])
             ELSE IF failAt = 1
             THEN [st EXCEPT !.raised = TRUE]
             ELSE IF file_length = 0
             THEN get_tuids_loop(Tail(files), revision, failAt - 1,
                      [st EXCEPT !.store = insert_annotate_dummy(@, revision, file),
                                 !.results = Append(@, Pair(file, <<>>))])
             ELSE get_tuids_loop(Tail(files), revision, failAt - 1,
                      [st EXCEPT !.store = insert_annotation(@, revision, file,
                                                             ListAnn(str_tuids)),
                                 !.next = @ + file_length,
                                 !.results = Append(@, Pair(file,
                                                 destringify_tuids(str_tuids)))])

\* get_tuids: the files answered from the index before any fetch
RECURSIVE cached_results(_, _)
cached_results(files, revision) ==
    IF files = <<>> THEN <<>>
    ELSE LET already_ann == get_annotation(annotations, revision, Head(files))
         IN  (IF Truthy(already_ann) THEN <<Pair(Head(files), lines_of(already_ann))>>
              ELSE IF IsDummy(already_ann) THEN <<Pair(Head(files), <<>>)>>
              ELSE <<>>)
             \o cached_results(Tail(files), revision)

annotations_to_get(files, revision) ==
    SelectSeq(files, LAMBDA f :
        LET already_ann == get_annotation(annotations, revision, f)
        IN  ~Truthy(already_ann) /\ ~IsDummy(already_ann))

(***************************************************************************)
(* Spec: callers of get_tuids_from_files(files, revision, repo=branch,     *)
(* use_thread=False)                                                       *)
(***************************************************************************)
MaxReqs == 2       \* get_tuids_from_files calls per run

Procs == {1, 2}

FileLists == {<<"a">>, <<"b">>, <<"a", "b">>}

Keys == Revs \X Files

Idle == [pc |-> "idle"]

NotAnswered == <<[tuid |-> 0, line |-> 0]>>

Finish(r, inner) == [r EXCEPT !.pc = "done", !.result = r.result \o inner]

FILES_TO_PROCESS_THRESH == 5

WORK_OVERFLOW_BATCH_SIZE == 250

ENABLE_TRY == FALSE

\* repo=None, config.hg.branch, and the try repo
NoRepo == "None"
Branch == "mozilla-central"
Repos == {NoRepo, Branch, "try"}

\* what get_clog answers for json-log/revision: the changelog, a string when
\* the revision is not in the branch, or an exception
Clogs == {"log", "string", "error"}

\* _check_branch taking every answer of get_clog for the changelog
check_branch_any(clog) == TRUE

\* _check_branch: True/False - Found it/Didn't find it
check_branch(clog) == clog = "log"

\* [(file, []) for file in files]
Empties(files) == [i \in 1..Len(files) |-> Pair(files[i], <<>>)]

\* the threshold test taking the threshold itself for too many
threaded_at_thresh(use_thread, new_files, frontier_update_list) ==
    use_thread /\ Len(new_files) + Len(frontier_update_list) >= FILES_TO_PROCESS_THRESH

\* lines 668-673: threaded
threaded_over(use_thread, new_files, frontier_update_list) ==
    use_thread /\ Len(new_files) + Len(frontier_update_list) > FILES_TO_PROCESS_THRESH

\* lines 683-697: the number of Thread.run calls of the while loop
RECURSIVE thread_count(_, _, _)
thread_count(curr_ind, new_files, frontier_update_list) ==
    IF curr_ind <= Len(frontier_update_list) \/ curr_ind <= Len(new_files)
    THEN 1 + thread_count(curr_ind + WORK_OVERFLOW_BATCH_SIZE, new_files,
                          frontier_update_list)
    ELSE 0

\* get_tuids_from_files(files, revision, repo, use_thread) up to the start of
\* update_tuids_in_thread: the branch guard (lines 501-522), the
\* classification with the frontier refresh of the cached files (lines
\* 524-603) and the choice between a worker thread and inline work (lines
\* 668-699).  A request within WORK_OVERFLOW_BATCH_SIZE files has one worker,
\* which takes the steps of update_tuids_in_thread in the caller's place.
ResolveCall(p, files, revision, going_forward, repo, use_thread, max_csets_proc, clog, calls) ==
    /\ req[p].pc = "idle"
    /\ nreq < calls
    /\ \E c \in {classify(files, revision,
                 [result |-> <<>>, inserts |-> {}, deletes |-> {}, new_files |-> <<>>,
                  frontier_update_list |-> <<>>])} :
          LET rejected == \/ repo = NoRepo /\ ~check_branch(clog)
                          \/ repo = "try" /\ ~ENABLE_TRY
              threaded == threaded_over(use_thread, c.new_files, c.frontier_update_list)
              r == [pc |-> "acquire", files |-> files, revision |-> revision,
                    going_forward |-> going_forward, max_csets_proc |-> max_csets_proc,
                    use_thread |-> use_thread, rejected |-> FALSE,
              not_in_branch |-> repo = NoRepo /\ clog = "string",
                    threaded |-> threaded, completed |-> ~threaded, hits |-> c.result,
                    result |-> c.result,
                    new_files |-> Slice(c.new_files, 0, WORK_OVERFLOW_BATCH_SIZE),
                    frontier_update_list |-> Slice(c.frontier_update_list, 0,
                                                   WORK_OVERFLOW_BATCH_SIZE),
                    inner |-> <<>>, to_get |-> <<>>, got |-> <<>>, anns_to_get |-> <<>>,
                    ann_inserts |-> <<>>, recomputed |-> <<>>, other |-> <<>>,
                    tmp_results |-> <<>>, moved |-> <<>>, allocs |-> 0, clog_failed |-> FALSE,
              move_failed |-> FALSE, fetch_failed |-> "",
                    prior |-> [f \in Range(files) |-> answered[<<revision, f>>]],
                    frontier |-> [f \in Range(files) |-> latestFileMod[f]],
                    tomb |-> {f \in Range(files) : annotations[<<revision, f>>] = DummyAnn}]
          IN  /\ nreq' = nreq + 1
              /\ threaded => thread_count(0, c.new_files, c.frontier_update_list) = 1
              /\ IF rejected
                 THEN /\ req' = [req EXCEPT ![p] =
                             [r EXCEPT !.pc = "done", !.rejected = TRUE, !.threaded = FALSE,
                                       !.completed = TRUE, !.hits = <<>>,
                                       !.result = Empties(files), !.new_files = <<>>,
                                       !.frontier_update_list = <<>>, !.tomb = {}]]
                      /\ UNCHANGED latestFileMod
                 ELSE /\ latestFileMod' =
                             upsert_frontiers([f \in Files |-> IF f \in c.deletes THEN NoRev
                                                               ELSE latestFileMod[f]],
                                              c.inserts, revision)
                      /\ req' = [req EXCEPT ![p] =
                             IF c.new_files # <<>> THEN r
                             ELSE IF c.frontier_update_list # <<>> THEN [r EXCEPT !.pc = "move"]
                             ELSE [r EXCEPT !.pc = "done"]]
              /\ UNCHANGED <<next_tuid, temporal, annotations, temporal_locker, answered,
                             allocVars, diffVars, annVars, extVars>>

\* the default of the parameter max_csets_proc (line 443)
DefaultMaxCsets == 30

\* a call of get_tuids_from_files with going_forward and max_csets_proc left
\* at their defaults, of the MaxReqs calls of a run
ResolveWith(p, files, revision, repo, use_thread, clog) ==
    ResolveCall(p, files, revision, FALSE, repo, use_thread, DefaultMaxCsets, clog, MaxReqs)

\* get_tuids_from_files(files, revision, repo=branch, use_thread=False)
Resolve(p, files, revision) == ResolveWith(p, files, revision, Branch, FALSE, "log")

\* the files get_tuids is called for: new_files (line 617), or the
\* anns_to_get of _update_file_frontiers (line 1265)
FilesToAcquire(r) == IF r.pc = "acquire" THEN r.new_files ELSE r.anns_to_get

\* what follows get_tuids: lines 632-654, or lines 1267-1272
AfterAcquire(r, got) ==
    IF r.pc \in {"acquire", "acquire_fetched", "acquire_locked"}
    THEN IF r.frontier_update_list # <<>>
         THEN [r EXCEPT !.pc = "move", !.inner = got]
         ELSE Finish(r, got)
    ELSE Finish(r, r.inner \o got \o r.moved)

FrontiersAfterAcquire(r) ==
    IF r.pc \in {"acquire", "acquire_fetched", "acquire_locked"}
    THEN upsert_frontiers(latestFileMod, Range(r.new_files), r.revision)
    ELSE latestFileMod

\* get_tuids (lines 1296-1367): the files not in the index are fetched from
\* hg, outside temporal_locker
AcquireStep(p, pc0) ==
    LET r == req[p]
        to_get == annotations_to_get(FilesToAcquire(r), r.revision)
        cached == cached_results(FilesToAcquire(r), r.revision)
    IN  /\ r.pc = pc0
        /\ to_get # <<>>
        /\ req' = [req EXCEPT ![p] =
               [r EXCEPT !.pc = IF pc0 = "acquire" THEN "acquire_fetched"
                                ELSE "move_acquire_fetched",
                         !.to_get = to_get,
                         !.got = cached]]
        /\ UNCHANGED <<next_tuid, temporal, annotations, latestFileMod, temporal_locker,
                       nreq, answered, allocVars, diffVars, annVars, extVars>>

\* the loop of _get_tuids (lines 1398-1431), under temporal_locker
AcquireLockStep(p, pc0) ==
    LET r == req[p]
    IN  /\ r.pc = pc0
        /\ temporal_locker = NoOne
        /\ \E failAt \in 0..Len(r.to_get) :
              \E st \in {get_tuids_loop(r.to_get, r.revision, failAt,
                            [store |-> annotations, next |-> next_tuid,
                             results |-> <<>>, raised |-> FALSE])} :
                  /\ annotations' = st.store
                  /\ next_tuid' = st.next
                  /\ IF st.raised
                     THEN /\ temporal_locker' = NoOne
                          /\ req' = [req EXCEPT ![p] =
                                 Finish([r EXCEPT !.allocs = @ + (st.next - next_tuid),
                                                  !.fetch_failed = r.to_get[failAt]],
                                        Repeat(NotAPair, Len(r.new_files)
                                                         + Len(r.frontier_update_list)))]
                     ELSE /\ temporal_locker' = p
                          /\ req' = [req EXCEPT ![p] =
                                 [r EXCEPT !.pc = IF pc0 = "acquire_fetched"
                                                  THEN "acquire_locked"
                                                  ELSE "move_acquire_locked",
                                           !.got = @ \o st.results,
                                           !.allocs = @ + (st.next - next_tuid)]]
        /\ UNCHANGED <<temporal, latestFileMod, nreq, answered, allocVars, diffVars, annVars, extVars>>

\* get_tuids finding every file in the index by now (lines 1309-1311)
AcquireCachedStep(p, pc0) ==
    LET r == req[p]
        cached == cached_results(FilesToAcquire(r), r.revision)
    IN  /\ r.pc = pc0
        /\ annotations_to_get(FilesToAcquire(r), r.revision) = <<>>
        /\ latestFileMod' = FrontiersAfterAcquire(r)
        /\ req' = [req EXCEPT ![p] = AfterAcquire(r, cached)]
        /\ UNCHANGED <<next_tuid, temporal, annotations, temporal_locker, nreq, answered,
                       allocVars, diffVars, annVars, extVars>>

\* line 1433: _insert_max_tuid, then temporal_locker is left
AcquireFinishStep(p, pc0) ==
    LET r == req[p]
    IN  /\ r.pc = pc0
        /\ temporal' = insert_max_tuid(next_tuid)
        /\ temporal_locker' = NoOne
        /\ latestFileMod' = FrontiersAfterAcquire(r)
        /\ req' = [req EXCEPT ![p] = AfterAcquire(r, r.got)]
        /\ UNCHANGED <<next_tuid, annotations, nreq, answered, allocVars, diffVars, annVars, extVars>>

Acquire(p) == AcquireStep(p, "acquire")
AcquireLock(p) == AcquireLockStep(p, "acquire_fetched")
AcquireCached(p) == AcquireCachedStep(p, "acquire")
AcquireFinish(p) == AcquireFinishStep(p, "acquire_locked")
MoveAcquire(p) == AcquireStep(p, "move_acquire")
MoveAcquireLock(p) == AcquireLockStep(p, "move_acquire_fetched")
MoveAcquireCached(p) == AcquireCachedStep(p, "move_acquire")
MoveAcquireFinish(p) == AcquireFinishStep(p, "move_acquire_locked")

(***************************************************************************)
(* _update_file_frontiers (lines 990-1272)                                 *)
(***************************************************************************)
\* clogger.get_revnnums_from_range(revision, cset): the (revnum, revision)
\* pairs of the changelog from the older of the two to the newer
get_revnnums_from_range(revision, cset) ==
    LET lo == Min(revision, cset)
        hi == IF revision < cset THEN cset ELSE revision
    IN  [i \in 1..(hi - lo + 1) |-> <<lo + i - 1, lo + i - 1>>]

Reverse(seq) == [i \in 1..Len(seq) |-> seq[Len(seq) + 1 - i]]

InvertChange(c) == [c EXCEPT !.action = IF c.action = "+" THEN "-" ELSE "+"]

\* the diff apply_diff_backwards applies: names swapped, actions inverted,
\* changes in reverse order
invert_diff(diff) ==
    [diff EXCEPT !.diffs =
        [i \in 1..Len(diff.diffs) |->
            [old |-> diff.diffs[i].new, new |-> diff.diffs[i].old,
             changes |-> Reverse([j \in 1..Len(diff.diffs[i].changes) |->
                                     InvertChange(diff.diffs[i].changes[j])])]]]

\* apply_diff / apply_diff_backwards, then create_and_insert_tuids giving the
\* new lines their tuids
walk_step(lines, diff, file, next, backwards) ==
    apply_diff_(lines, IF backwards THEN invert_diff(diff) ELSE diff, file, next)

\* lines 1062-1086: the files some fetched diff mentions
touched_by(entries, tracked) ==
    {entries[i].new : i \in {j \in 1..Len(entries) : entries[j].new \in tracked}}
    \cup {entries[i].old : i \in {j \in 1..Len(entries) :
                                     /\ entries[j].new \notin tracked
                                     /\ entries[j].old \in tracked}}

files_to_process(frontier_list, revision) ==
    LET tracked == {frontier_list[i][1] : i \in 1..Len(frontier_list)}
        ranges == {get_revnnums_from_range(revision, frontier_list[i][2])
                      : i \in 1..Len(frontier_list)}
        diffs_cache == UNION {{rng[i][2] : i \in 1..Len(rng)} : rng \in ranges}
    IN  UNION {touched_by(get_hg_diff(cset).diffs, tracked) : cset \in diffs_cache}

\* lines 1122-1135: the changesets to apply, and the direction
csets_to_apply(revision, old_frontier) ==
    LET csets_to_proc == get_revnnums_from_range(revision, old_frontier)
        backwards == Len(csets_to_proc) >= 1 /\ revision = csets_to_proc[1][2]
    IN  [backwards |-> backwards,
         csets |-> IF Len(csets_to_proc) = 0 THEN <<>>
                   ELSE IF backwards
                   THEN SubSeq(Reverse(csets_to_proc), 1, Len(csets_to_proc) - 1)
                   ELSE Tail(csets_to_proc)]

\* every step's annotation keyed by the changeset whose diff was applied,
\* whatever the direction
RECURSIVE walk_keyed_by_step(_, _, _, _, _, _, _)
walk_keyed_by_step(csets, i, backwards, revision, file, failAt, w) ==
    IF i > Len(csets) \/ failAt = i THEN w
    ELSE LET rev == csets[i][2]
             r == walk_step(w.lines, get_hg_diff(rev), w.fname, w.next, backwards)
         IN  walk_keyed_by_step(csets, i + 1, backwards, revision, file, failAt,
                  [lines |-> r.ann, fname |-> r.file, next |-> r.next,
                   inserts |-> Append(w.inserts,
                                  [rev |-> rev, file |-> file,
                                   ann |-> ListAnn(stringify_tuids(r.ann))])])

\* lines 1138-1169: apply the diffs in turn; create_and_insert_tuids raises
\* at step failAt.  w = [lines, fname, next, inserts]
RECURSIVE walk(_, _, _, _, _, _, _)
walk(csets, i, backwards, revision, file, failAt, w) ==
    IF i > Len(csets) \/ failAt = i THEN w
    ELSE LET rev == csets[i][2]
             next_rev == IF i + 1 <= Len(csets) THEN csets[i + 1][2] ELSE revision
             rev_to_proc == IF backwards THEN next_rev ELSE rev
             r == walk_step(w.lines, get_hg_diff(rev), w.fname, w.next, backwards)
         IN  walk(csets, i + 1, backwards, revision, file, failAt,
                  [lines |-> r.ann, fname |-> r.file, next |-> r.next,
                   inserts |-> Append(w.inserts,
                                  [rev |-> rev_to_proc, file |-> file,
                                   ann |-> ListAnn(stringify_tuids(r.ann))])])

\* lines 1097-1225 for one file.  m = [next, ann_inserts, anns_to_get, tmp_results]
move_file(file, old_frontier, revision, touched, failAt, m) ==
    IF touched
    THEN LET tmp_ann == get_annotation(annotations, old_frontier, file)
             plan == csets_to_apply(revision, old_frontier)
             w == walk(plan.csets, 1, plan.backwards, revision, file, failAt,
                       [lines |-> lines_of(tmp_ann), fname |-> file, next |-> m.next,
                        inserts |-> <<>>])
         IN  IF IsNone(tmp_ann) \/ IsDummy(tmp_ann)
             THEN [m EXCEPT !.anns_to_get = Append(@, file),
                            !.tmp_results = Append(@, Pair(file, <<>>))]
             ELSE [next |-> w.next,
                   ann_inserts |-> m.ann_inserts \o w.inserts,
                   anns_to_get |-> m.anns_to_get,
                   tmp_results |-> Append(m.tmp_results,
                       Pair(file, IF w.inserts = <<>> THEN lines_of(tmp_ann) ELSE w.lines))]
    ELSE LET old_ann == get_annotation(annotations, old_frontier, file)
         IN  IF IsNone(old_ann)
             THEN [m EXCEPT !.anns_to_get = Append(@, file),
                            !.tmp_results = Append(@, Pair(file, <<>>))]
             ELSE [m EXCEPT !.ann_inserts = Append(@, [rev |-> revision, file |-> file,
                                                        ann |-> old_ann]),
                            !.tmp_results = Append(@, Pair(file, lines_of(old_ann)))]

RECURSIVE move_files(_, _, _, _, _, _)
move_files(frontier_list, i, revision, touched, fails, m) ==
    IF i > Len(frontier_list) THEN m
    ELSE move_files(frontier_list, i + 1, revision, touched, fails,
             move_file(frontier_list[i][1], frontier_list[i][2], revision,
                       frontier_list[i][1] \in touched, fails[i], m))

NumSteps(revision, old_frontier) == Len(csets_to_apply(revision, old_frontier).csets)

\* lines 1244-1250: of one chunk of ann_inserts, the entries nobody has
\* stored yet, and what others have stored at the requested revision.
\* d = [recomputed, other]
RECURSIVE double_check(_, _, _, _)
double_check(tmp_inserts, revision, store, d) ==
    IF tmp_inserts = <<>> THEN d
    ELSE LET e == Head(tmp_inserts)
             tmp_ann == get_annotation(store, e.rev, e.file)
         IN  double_check(Tail(tmp_inserts), revision, store,
                 IF ~Truthy(tmp_ann) /\ ~IsDummy(tmp_ann)
                 THEN [d EXCEPT !.recomputed = Append(@, e)]
                 ELSE IF e.rev = revision
                 THEN [d EXCEPT !.other = Append(@, Pair(e.file, lines_of(tmp_ann)))]
                 ELSE d)

\* insert_annotations(recomputed_inserts)
RECURSIVE insert_annotations(_, _)
insert_annotations(store, entries) ==
    IF entries = <<>> THEN store
    ELSE insert_annotations(insert_annotation(store, Head(entries).rev, Head(entries).file,
                                              Head(entries).ann),
                            Tail(entries))

\* the next jx.chunk(ann_inserts, size=SQL_ANN_BATCH_SIZE), double-checked
next_chunk(ann_inserts, revision, store, other) ==
    LET d == double_check(Slice(ann_inserts, 0, SQL_ANN_BATCH_SIZE), revision, store,
                          [recomputed |-> <<>>, other |-> other])
    IN  [recomputed |-> d.recomputed, other |-> d.other,
         ann_inserts |-> Slice(ann_inserts, SQL_ANN_BATCH_SIZE, Len(ann_inserts))]

\* line 1049 raising: clogger.get_revnnums_from_range fails, and the except
\* clause of update_tuids_in_thread (lines 656-658) replaces the result of the
\* new files and the moved files by as many []
MoveClogFails(p) ==
    LET r == req[p]
    IN  /\ r.pc = "move"
        /\ req' = [req EXCEPT ![p] =
               Finish([r EXCEPT !.clog_failed = TRUE],
                      Repeat(NotAPair, Len(r.new_files) + Len(r.frontier_update_list)))]
        /\ UNCHANGED <<next_tuid, temporal, annotations, latestFileMod, temporal_locker,
                       nreq, answered, allocVars, diffVars, annVars, extVars>>

\* lines 1019-1250: read the frontier annotations, walk them to revision and
\* double-check the first chunk of what is to be inserted
MoveCompute(p) ==
    LET r == req[p]
        fl == r.frontier_update_list
        touched == files_to_process(fl, r.revision)
        can_fail == {i \in 1..Len(fl) : /\ fl[i][1] \in touched
                                        /\ Truthy(annotations[<<fl[i][2], fl[i][1]>>])}
    IN  /\ r.pc = "move"
        /\ temporal_locker = NoOne
        /\ \E failing \in [can_fail -> 0..Len(HgLog)] :
              /\ \A i \in can_fail : failing[i] <= NumSteps(r.revision, fl[i][2])
              /\ \E m \in {move_files(fl, 1, r.revision, touched,
                              [i \in 1..Len(fl) |->
                                  IF i \in can_fail THEN failing[i] ELSE 0],
                              [next |-> next_tuid, ann_inserts |-> <<>>,
                               anns_to_get |-> <<>>, tmp_results |-> <<>>])} :
                 \E c \in {next_chunk(m.ann_inserts, r.revision, annotations, <<>>)} :
                     /\ next_tuid' = m.next
                     /\ temporal' = IF m.next > next_tuid THEN insert_max_tuid(m.next)
                                    ELSE temporal
                     /\ req' = [req EXCEPT ![p] =
                            [r EXCEPT !.pc = "move_write",
                                      !.ann_inserts = c.ann_inserts,
                                      !.recomputed = c.recomputed,
                                      !.other = c.other,
                                      !.anns_to_get = m.anns_to_get,
                                      !.tmp_results = m.tmp_results,
                                      !.move_failed = \E i \in can_fail : failing[i] > 0,
                                      !.allocs = @ + (m.next - next_tuid)]]
        /\ UNCHANGED <<annotations, latestFileMod, temporal_locker, nreq, answered,
                       allocVars, diffVars, annVars, extVars>>

\* lines 1267-1271: what another thread was found to have stored for file
OtherFor(other, file) ==
    LET hits == {i \in 1..Len(other) : other[i].file = file}
    IN  IF hits = {} THEN <<>>
        ELSE <<other[CHOOSE i \in hits : \A j \in hits : j <= i].tuids>>

\* lines 1225-1238, 1256 and 1267-1271: insert the chunk that was checked;
\* then check the next chunk, or after the last one leave the transaction
\* with every frontier set and assemble the result
MoveWrite(p) ==
    LET r == req[p]
        fl == r.frontier_update_list
        store == insert_annotations(annotations, r.recomputed)
        c == next_chunk(r.ann_inserts, r.revision, store, r.other)
        moved == [i \in 1..Len(r.tmp_results) |->
                     LET f == r.tmp_results[i].file
                     IN  Pair(f, IF OtherFor(r.other, f) # <<>> THEN OtherFor(r.other, f)[1]
                                 ELSE r.tmp_results[i].tuids)]
    IN  /\ r.pc = "move_write"
        /\ annotations' = store
        /\ IF r.ann_inserts # <<>>
           THEN /\ req' = [req EXCEPT ![p] =
                       [r EXCEPT !.recomputed = c.recomputed, !.other = c.other,
                                 !.ann_inserts = c.ann_inserts]]
                /\ UNCHANGED latestFileMod
           ELSE /\ latestFileMod' = upsert_frontiers(latestFileMod,
                                         {fl[i][1] : i \in 1..Len(fl)}, r.revision)
                /\ req' = [req EXCEPT ![p] =
                       IF r.anns_to_get # <<>>
                       THEN [r EXCEPT !.pc = "move_acquire", !.moved = moved,
                                      !.recomputed = <<>>]
                       ELSE Finish([r EXCEPT !.recomputed = <<>>], r.inner \o moved)]
        /\ UNCHANGED <<next_tuid, temporal, temporal_locker, nreq, answered,
                       allocVars, diffVars, annVars, extVars>>

\* the pair returned for file, when the result holds exactly one
AnswerFor(result, file) ==
    LET hits == {i \in 1..Len(result) : result[i].file = file}
    IN  IF Cardinality(hits) = 1 THEN result[CHOOSE i \in hits : TRUE].tuids
        ELSE NotAnswered

\* line 717: the result the caller gets: the cached files alone when the
\* rest was handed to a thread
Response(r) == IF r.threaded THEN r.hits ELSE r.result

\* return result, completed; the request is over once its worker is
Return(p) ==
    LET r == req[p]
    IN  /\ r.pc = "done"
        /\ answered' = [k \in Keys |->
               IF answered[k] = NotAnswered /\ k[1] = r.revision /\ k[2] \in Range(r.files)
               THEN AnswerFor(Response(r), k[2])
               ELSE answered[k]]
        /\ req' = [req EXCEPT ![p] = Idle]
        /\ UNCHANGED <<next_tuid, temporal, annotations, latestFileMod, temporal_locker,
                       nreq, allocVars, diffVars, annVars, extVars>>

\* the tables of a service that has never run, or that has answered
\* get_tuids_from_files(["a", "b"], 0) in an earlier run
StoredBefore(seeded) ==
    LET empty == [store |-> [k \in Keys |-> NoAnn], next |-> 1, results |-> <<>>,
                  raised |-> FALSE]
        st == get_tuids_loop(<<"a", "b">>, 0, 0, empty)
    IN  IF seeded
        THEN [temporal |-> insert_max_tuid(st.next),
              annotations |-> st.store,
              latestFileMod |-> upsert_frontiers([f \in Files |-> NoRev], {"a", "b"}, 0),
              answered |-> [k \in Keys |-> IF k[1] = 0 THEN AnswerFor(st.results, k[2])
                                           ELSE NotAnswered]]
        ELSE [temporal |-> NoRow,
              annotations |-> empty.store,
              latestFileMod |-> [f \in Files |-> NoRev],
              answered |-> [k \in Keys |-> NotAnswered]]

Init ==
    /\ \E seeded \in BOOLEAN :
          /\ temporal = StoredBefore(seeded).temporal
          /\ annotations = StoredBefore(seeded).annotations
          /\ latestFileMod = StoredBefore(seeded).latestFileMod
          /\ answered = StoredBefore(seeded).answered
    /\ next_tuid = init_next_tuid(temporal)
    /\ temporal_locker = NoOne
    /\ req = [p \in Procs |-> Idle]
    /\ nreq = 0
    /\ locker = NoOne /\ tpc = <<>> /\ tval = <<>> /\ tload = <<>>
    /\ returned = <<>> /\ init_tuid = 1
    /\ d_ann = <<>> /\ d_file = "" /\ d_lines = <<>> /\ d_ann0 = <<>>
    /\ d_last = [kind |-> "none"] /\ d_steps = 0
    /\ NoAnnThreads
    /\ NoExt

Next ==
    \E p \in Procs :
        \/ \E files \in FileLists, revision \in Revs : Resolve(p, files, revision)
        \/ Acquire(p)
        \/ AcquireLock(p)
        \/ AcquireCached(p)
        \/ AcquireFinish(p)
        \/ MoveClogFails(p)
        \/ MoveCompute(p)
        \/ MoveWrite(p)
        \/ MoveAcquire(p)
        \/ MoveAcquireLock(p)
        \/ MoveAcquireCached(p)
        \/ MoveAcquireFinish(p)
        \/ Return(p)

Spec == Init /\ [][Next]_vars

(***************************************************************************)
(* SpecThread: callers of get_tuids_from_files(files, revision, repo,      *)
(* use_thread) with enough files to pass FILES_TO_PROCESS_THRESH           *)
(***************************************************************************)
ThreadFileLists == {<<"a">>, <<"a", "b", "c", "d", "e", "f", "g">>}

\* between these two changesets every frontier has its annotation stored, so
\* that _update_file_frontiers never has anns_to_get to pass to get_tuids
ThreadRevs == {0, 1}

\* the tables after get_tuids_from_files(["a", "b"], 0)
InitThread ==
    /\ temporal = StoredBefore(TRUE).temporal
    /\ annotations = StoredBefore(TRUE).annotations
    /\ latestFileMod = StoredBefore(TRUE).latestFileMod
    /\ answered = StoredBefore(TRUE).answered
    /\ next_tuid = init_next_tuid(temporal)
    /\ temporal_locker = NoOne
    /\ req = [p \in Procs |-> Idle]
    /\ nreq = 0
    /\ locker = NoOne /\ tpc = <<>> /\ tval = <<>> /\ tload = <<>>
    /\ returned = <<>> /\ init_tuid = 1
    /\ d_ann = <<>> /\ d_file = "" /\ d_lines = <<>> /\ d_ann0 = <<>>
    /\ d_last = [kind |-> "none"] /\ d_steps = 0
    /\ NoAnnThreads
    /\ NoExt

NextThread ==
    \E p \in Procs :
        \/ \E files \in ThreadFileLists, revision \in ThreadRevs, repo \in Repos,
              use_thread \in BOOLEAN :
                \E clog \in IF repo = NoRepo THEN Clogs ELSE {"log"} :
                    ResolveWith(p, files, revision, repo, use_thread, clog)
        \/ Acquire(p)
        \/ AcquireLock(p)
        \/ AcquireCached(p)
        \/ AcquireFinish(p)
        \/ MoveClogFails(p)
        \/ MoveCompute(p)
        \/ MoveWrite(p)
        \/ Return(p)

SpecThread == InitThread /\ [][NextThread]_vars

\* a step of the thread that runs update_tuids_in_thread.  Thread.run starts
\* it at once and the interpreter gives every runnable thread its turn;
\* temporal_locker is held only from the loop of _get_tuids to the
\* _insert_max_tuid that follows it.
WorkerStep(p) ==
    \/ Acquire(p)
    \/ AcquireLock(p)
    \/ AcquireCached(p)
    \/ AcquireFinish(p)
    \/ MoveClogFails(p)
    \/ MoveCompute(p)
    \/ MoveWrite(p)

\* callers that name the repo and leave use_thread at its default, True
NextWorker ==
    \E p \in Procs :
        \/ \E files \in ThreadFileLists, revision \in ThreadRevs :
                ResolveWith(p, files, revision, Branch, TRUE, "log")
        \/ WorkerStep(p)
        \/ Return(p)

SpecThreadFair ==
    InitThread /\ [][NextWorker]_vars /\ \A p \in Procs : WF_vars(WorkerStep(p))

(***************************************************************************)
(* SpecSeq: one caller making its calls of get_tuids_from_files(files,     *)
(* revision, repo=branch, use_thread=False) one after the other.  With no  *)
(* second caller get_tuids never finds in the index what the              *)
(* classification or the mover has just missed there.                      *)
(***************************************************************************)
MaxSeqReqs == 3       \* calls of the one caller

Caller == 1

\* going_forward and max_csets_proc as the caller passes them: the defaults,
\* or a limit of one changeset with and without going_forward
WalkOptions == {<<FALSE, DefaultMaxCsets>>, <<FALSE, 1>>, <<TRUE, 1>>}

NextSeq ==
    \/ \E files \in FileLists, revision \in Revs, o \in WalkOptions :
          ResolveCall(Caller, files, revision, o[1], Branch, FALSE, o[2], "log", MaxSeqReqs)
    \/ Acquire(Caller)
    \/ AcquireLock(Caller)
    \/ AcquireFinish(Caller)
    \/ MoveClogFails(Caller)
    \/ MoveCompute(Caller)
    \/ MoveWrite(Caller)
    \/ MoveAcquire(Caller)
    \/ MoveAcquireLock(Caller)
    \/ MoveAcquireFinish(Caller)
    \/ Return(Caller)

SpecSeq == Init /\ [][NextSeq]_vars

(***************************************************************************)
(* SpecRekey: callers asking for one of the files b and c, which the       *)
(* changesets after the one that added c do not edit, starting from empty  *)
(* tables.                                                                 *)
(***************************************************************************)
MaxRekeyReqs == 3       \* get_tuids_from_files calls per run

RekeyFileLists == {<<"b">>, <<"c">>}

InitRekey ==
    /\ temporal = StoredBefore(FALSE).temporal
    /\ annotations = StoredBefore(FALSE).annotations
    /\ latestFileMod = StoredBefore(FALSE).latestFileMod
    /\ answered = StoredBefore(FALSE).answered
    /\ next_tuid = init_next_tuid(temporal)
    /\ temporal_locker = NoOne
    /\ req = [p \in Procs |-> Idle]
    /\ nreq = 0
    /\ locker = NoOne /\ tpc = <<>> /\ tval = <<>> /\ tload = <<>>
    /\ returned = <<>> /\ init_tuid = 1
    /\ d_ann = <<>> /\ d_file = "" /\ d_lines = <<>> /\ d_ann0 = <<>>
    /\ d_last = [kind |-> "none"] /\ d_steps = 0
    /\ NoAnnThreads
    /\ NoExt

NextRekey ==
    \E p \in Procs :
        \/ \E files \in RekeyFileLists, revision \in Revs :
              ResolveCall(p, files, revision, FALSE, Branch, FALSE, DefaultMaxCsets, "log",
                          MaxRekeyReqs)
        \/ Acquire(p)
        \/ AcquireLock(p)
        \/ AcquireCached(p)
        \/ AcquireFinish(p)
        \/ MoveClogFails(p)
        \/ MoveCompute(p)
        \/ MoveWrite(p)
        \/ MoveAcquire(p)
        \/ MoveAcquireLock(p)
        \/ MoveAcquireCached(p)
        \/ MoveAcquireFinish(p)
        \/ Return(p)

SpecRekey == InitRekey /\ [][NextRekey]_vars

(***************************************************************************)
(* SpecRestart: the service process may stop at any point and start again  *)
(* over the same tables                                                    *)
(***************************************************************************)
\* __init__ (line 86): the counter is read back from temporal; the requests
\* in progress and the locks die with the process
Restart ==
    /\ \E p \in Procs : req[p].pc # "idle"
    /\ next_tuid' = init_next_tuid(temporal)
    /\ temporal_locker' = NoOne
    /\ req' = [p \in Procs |-> Idle]
    /\ UNCHANGED <<temporal, annotations, latestFileMod, nreq, answered,
                   allocVars, diffVars, annVars, extVars>>

NextRestart == Next \/ Restart

SpecRestart == Init /\ [][NextRestart]_vars

(***************************************************************************)
(* SpecTry: callers of get_tuids_from_files(files, revision, repo="try"),  *)
(* with ENABLE_TRY as shipped and with ENABLE_TRY switched on              *)
(***************************************************************************)
MaxTryReqs == 3

TryFileLists == {<<"a">>, <<"b">>, <<"c">>, <<"d">>, <<"a", "b">>, <<"c", "d">>}

TryKeys == Keys \cup ({TryRev} \X Files)

\* what json-pushes answers: the push, or something the code raises on
Pushes == {"push", "error"}

\* the try branch calls get_tuids, never get_tuids_from_files, for the
\* annotations at the parent of the push: latestFileMod stays as it is
try_frontiers_resolved(table, files, mc_revision) ==
    upsert_frontiers(table, Range(files), mc_revision)

try_frontiers(table, files, mc_revision) == table

\* lines 871-898: what the draft changeset does to a file asked for
try_added(file) ==
    \E i \in 1..Len(TryDraft.diffs) :
        TryDraft.diffs[i].new = file /\ TryDraft.diffs[i].old = DEVNULL

try_removed(file) ==
    \E i \in 1..Len(TryDraft.diffs) :
        TryDraft.diffs[i].new = DEVNULL /\ TryDraft.diffs[i].old = file

try_to_process(file) ==
    \E i \in 1..Len(TryDraft.diffs) :
        TryDraft.diffs[i].new = file /\ TryDraft.diffs[i].old # DEVNULL

\* lines 917-957: the loop over files_to_update under temporal_locker.
\* m = [next, n, ann_inserts, anns_to_get, tmp_results]
RECURSIVE try_update(_, _, _, _)
try_update(files_to_update, revision, curr, m) ==
    IF files_to_update = <<>> THEN m
    ELSE LET file == Head(files_to_update)
             old_ann == lines_of(get_annotation(curr, TryBase, file))
             r == apply_diff_(old_ann, TryDraft, file, m.next)
         IN  try_update(Tail(files_to_update), revision, curr,
                 IF try_added(file)
                 THEN [m EXCEPT !.anns_to_get = Append(@, file)]
                 ELSE IF try_removed(file)
                 THEN [m EXCEPT !.ann_inserts = Append(@, [rev |-> revision, file |-> file,
                                                            ann |-> DummyAnn]),
                                !.tmp_results = Append(@, Pair(file, <<>>))]
                 ELSE IF try_to_process(file)
                 THEN [m EXCEPT !.next = r.next,
                                !.n = @ + r.n,
                                !.ann_inserts = Append(@, [rev |-> revision, file |-> file,
                                                  ann |-> ListAnn(stringify_tuids(r.ann))]),
                                !.tmp_results = Append(@, Pair(file, r.ann))]
                 ELSE [m EXCEPT !.ann_inserts = Append(@, [rev |-> revision, file |-> file,
                                                  ann |-> ListAnn(stringify_tuids(old_ann))]),
                                !.tmp_results = Append(@, Pair(file, old_ann))])

\* line 981: get_tuids(anns_to_get, revision, repo=repo), the line counts
\* being those of raw-file on try.  st = [store, next, results]
RECURSIVE try_get_tuids(_, _, _)
try_get_tuids(files, revision, st) ==
    IF files = <<>> THEN st
    ELSE LET file == Head(files)
             tmp_ann == get_annotation(st.store, revision, file)
             file_length == IF TryRepo[file].present THEN Len(TryRepo[file].lines) ELSE 0
             str_tuids == tuid_block(st.next, file_length)
         IN  IF ~IsNone(tmp_ann)
             THEN try_get_tuids(Tail(files), revision,
                      [st EXCEPT !.results = Append(@, Pair(file, lines_of(tmp_ann)))])
             ELSE IF file_length = 0
             THEN try_get_tuids(Tail(files), revision,
                      [st EXCEPT !.store = insert_annotate_dummy(@, revision, file),
                                 !.results = Append(@, Pair(file, <<>>))])
             ELSE try_get_tuids(Tail(files), revision,
                      [st EXCEPT !.store = insert_annotation(@, revision, file,
                                                             ListAnn(str_tuids)),
                                 !.next = @ + file_length,
                                 !.results = Append(@, Pair(file,
                                                 destringify_tuids(str_tuids)))])

\* lines 984-988: the result, with what get_tuids answered for anns_to_get
try_result(hits, wrote, m, got) ==
    [store |-> got.store, next |-> got.next,
     wrote |-> wrote \/ m.n > 0 \/ m.anns_to_get # <<>>,
     result |-> hits \o got.results \o m.tmp_results]

\* lines 959-981: the double-checked insert of ann_inserts, then get_tuids
try_insert(revision, hits, wrote, store, m) ==
    try_result(hits, wrote, m,
        try_get_tuids(m.anns_to_get, revision,
            [store |-> insert_annotations(store,
                           double_check(m.ann_inserts, revision, store,
                                        [recomputed |-> <<>>, other |-> <<>>]).recomputed),
             next |-> m.next, results |-> <<>>]))

\* lines 910-957: base is what get_tuids(files, mc_revision) left
try_replay(files, revision, hits, files_to_update, base) ==
    try_insert(revision, hits, annotations_to_get(files, TryBase) # <<>>, base.store,
        try_update(files_to_update, revision, base.store,
            [next |-> base.next, n |-> 0, ann_inserts |-> <<>>, anns_to_get |-> <<>>,
             tmp_results |-> <<>>]))

\* _get_tuids_from_files_try_branch(files, revision) (lines 783-988):
\* [store, next, wrote, result]; wrote: _insert_max_tuid was called
get_tuids_from_files_try_branch(files, revision, push) ==
    IF annotations_to_get(files, revision) = <<>>
    THEN [store |-> annotations, next |-> next_tuid, wrote |-> FALSE,
          result |-> cached_results(files, revision)]
    ELSE IF push = "error"
    THEN [store |-> annotations, next |-> next_tuid, wrote |-> FALSE,
          result |-> Empties(files)]
    ELSE try_replay(files, revision, cached_results(files, revision),
                    annotations_to_get(files, revision),
                    get_tuids_loop(annotations_to_get(files, TryBase), TryBase, 0,
                        [store |-> annotations, next |-> next_tuid, results |-> <<>>,
                         raised |-> FALSE]))

\* get_tuids_from_files(files, revision, repo="try") (lines 491-522), the
\* whole call
ResolveTry(p, files, revision, enable_try, push) ==
    /\ req[p].pc = "idle"
    /\ nreq < MaxTryReqs
    /\ nreq' = nreq + 1
    /\ \E t \in {IF enable_try
                 THEN get_tuids_from_files_try_branch(files, revision, push)
                 ELSE [store |-> annotations, next |-> next_tuid, wrote |-> FALSE,
                       result |-> Empties(files)]} :
          /\ annotations' = t.store
          /\ next_tuid' = t.next
          /\ temporal' = IF t.wrote THEN insert_max_tuid(t.next) ELSE temporal
          /\ latestFileMod' = try_frontiers(latestFileMod, files, TryBase)
          /\ req' = [req EXCEPT ![p] =
                 [pc |-> "done", files |-> files, revision |-> revision, repo |-> "try",
                  enable_try |-> enable_try, push |-> push,
                  threaded |-> FALSE, completed |-> TRUE,
                  hits |-> cached_results(files, revision), result |-> t.result,
                  frontier |-> latestFileMod]]
    /\ UNCHANGED <<temporal_locker, answered, allocVars, diffVars, annVars, extVars>>

InitTry ==
    /\ \E seeded \in BOOLEAN :
          /\ temporal = StoredBefore(seeded).temporal
          /\ annotations = [k \in TryKeys |-> IF k \in Keys
                                               THEN StoredBefore(seeded).annotations[k]
                                               ELSE NoAnn]
          /\ latestFileMod = StoredBefore(seeded).latestFileMod
          /\ answered = StoredBefore(seeded).answered
    /\ next_tuid = init_next_tuid(temporal)
    /\ temporal_locker = NoOne
    /\ req = [p \in Procs |-> Idle]
    /\ nreq = 0
    /\ locker = NoOne /\ tpc = <<>> /\ tval = <<>> /\ tload = <<>>
    /\ returned = <<>> /\ init_tuid = 1
    /\ d_ann = <<>> /\ d_file = "" /\ d_lines = <<>> /\ d_ann0 = <<>>
    /\ d_last = [kind |-> "none"] /\ d_steps = 0
    /\ NoAnnThreads
    /\ NoExt

NextTry ==
    \E p \in Procs :
        \/ \E files \in TryFileLists, enable_try \in {ENABLE_TRY, TRUE}, push \in Pushes :
              ResolveTry(p, files, TryRev, enable_try, push)
        \/ Return(p)

SpecTry == InitTry /\ [][NextTry]_vars

(***************************************************************************)
(* SpecDaemon: the thread of TUIDService._daemon (lines 1436-1558) and the *)
(* calls of get_tuids_from_files it makes                                  *)
(***************************************************************************)
MaxDaemonCalls == 6    \* get_tuids_from_files calls of the daemon in a run
ClogPage == 3          \* changesets of one json-log page
MaxCsets == 4          \* entries of csets that are kept while the frontier is looked for

FilesInOrder == <<"a", "b", "c", "d", "e", "f", "g">>

\* lines 1449-1457: revs = {rev: [files]} from SELECT file, revision FROM latestFileMod
frontier_groups ==
    [rev \in {latestFileMod[f] : f \in Files} \ {NoRev} |->
        SelectSeq(FilesInOrder, LAMBDA f : latestFileMod[f] = rev)]

\* get_clog(json-log/final_rev): the changesets of the branch from final_rev
\* (the tip when final_rev is "") towards the first, newest first
clog_page(final_rev) ==
    LET top == IF final_rev = NoRev THEN Len(HgLog) - 1 ELSE final_rev
    IN  [i \in 1..Min(ClogPage, top + 1) |-> top + 1 - i]

\* lines 1490-1500: for clog_cset in clog_obj["changesets"]
scan_page(page, frontier, csets) ==
    LET hit == {i \in 1..Len(page) : page[i] = frontier}
        k == IF hit = {} THEN Len(page)
             ELSE (CHOOSE i \in hit : \A j \in hit : i <= j) - 1
    IN  [csets |-> Slice(csets \o SubSeq(page, 1, k), 0, MaxCsets),
         found |-> hit # {},
         final_rev |-> IF hit # {} THEN frontier
                       ELSE IF page = <<>> THEN NoRev ELSE page[Len(page)]]

\* line 1552: self.get_tuids_from_files(files, cset), the other parameters at
\* their defaults (lines 440-444)
daemon_call(files, cset) ==
    [files |-> files, revision |-> cset, going_forward |-> FALSE, repo |-> NoRepo,
     use_thread |-> TRUE, max_csets_proc |-> DefaultMaxCsets]

\* lines 1447-1457: while not please_stop, the frontier groups are read
DaemonTop ==
    /\ daemon.pc = "top"
    /\ daemon' = IF please_stop THEN [daemon EXCEPT !.pc = "stopped"]
                 ELSE [daemon EXCEPT !.pc = "groups", !.revs = frontier_groups,
                                     !.left = DOMAIN frontier_groups,
                                     !.ran_changesets = FALSE]
    /\ UNCHANGED <<please_stop, next_tuid, svcVars, allocVars, diffVars, annVars,
                   flowVars, pyVars>>

\* lines 1462-1473: for frontier in revs, in the order of the dict
DaemonGroup ==
    /\ daemon.pc = "groups"
    /\ IF daemon.left = {}
       THEN daemon' = [daemon EXCEPT !.pc = IF daemon.ran_changesets THEN "top" ELSE "wait"]
       ELSE IF please_stop
       THEN daemon' = [daemon EXCEPT !.pc = "stopped"]
       ELSE \E frontier \in daemon.left :
               daemon' = [daemon EXCEPT !.pc = "page", !.left = @ \ {frontier},
                                        !.frontier = frontier,
                                        !.files = daemon.revs[frontier],
                                        !.csets = <<>>, !.final_rev = NoRev,
                                        !.pages = 0, !.calls = <<>>]
    /\ UNCHANGED <<please_stop, next_tuid, svcVars, allocVars, diffVars, annVars,
                   flowVars, pyVars>>

\* lines 1478-1509: one turn of `while not found_last_frontier`; Log.error
\* raises when get_clog does.  pages is the number of turns so far, modulo 2
DaemonPage(answer) ==
    /\ daemon.pc = "page"
    /\ LET sc == scan_page(clog_page(daemon.final_rev), daemon.frontier, daemon.csets)
       IN  daemon' =
               IF answer = "error" THEN [daemon EXCEPT !.pc = "dead"]
               ELSE IF ~sc.found
               THEN [daemon EXCEPT !.csets = sc.csets, !.final_rev = sc.final_rev,
                                   !.pages = (@ + 1) % 2]
               ELSE IF Len(sc.csets) = 0
               THEN [daemon EXCEPT !.pc = "groups"]
               ELSE [daemon EXCEPT !.pc = "csets", !.csets = Reverse(sc.csets)]
    /\ UNCHANGED <<please_stop, next_tuid, svcVars, allocVars, diffVars, annVars,
                   flowVars, pyVars>>

\* lines 1536-1552: for cset in csets, up to the call
DaemonCset ==
    /\ daemon.pc = "csets"
    /\ daemon' =
           IF daemon.csets = <<>> THEN [daemon EXCEPT !.pc = "groups"]
           ELSE IF please_stop THEN [daemon EXCEPT !.pc = "stopped"]
           ELSE [daemon EXCEPT !.pc = "call",
                               !.started = nreq,
                               !.calls = Append(@, daemon_call(daemon.files,
                                                               Head(daemon.csets)))]
    /\ UNCHANGED <<please_stop, next_tuid, svcVars, allocVars, diffVars, annVars,
                   flowVars, pyVars>>

\* line 1552: the call is entered
DaemonResolve ==
    /\ daemon.pc = "call"
    /\ nreq = daemon.started
    /\ LET c == daemon.calls[Len(daemon.calls)]
       IN  ResolveCall(Caller, c.files, c.revision, c.going_forward, c.repo, c.use_thread,
                       c.max_csets_proc, "log", MaxDaemonCalls)

\* lines 1552-1555: the call has returned
DaemonReturned ==
    /\ daemon.pc = "call"
    /\ nreq > daemon.started
    /\ req[Caller].pc = "idle"
    /\ daemon' = [daemon EXCEPT !.pc = "csets", !.csets = Tail(@),
                                !.ran_changesets = TRUE]
    /\ UNCHANGED <<please_stop, next_tuid, svcVars, allocVars, diffVars, annVars,
                   flowVars, pyVars>>

\* lines 1557-1558: (please_stop | Till(seconds=DAEMON_WAIT_AT_NEWEST)).wait()
DaemonWait ==
    /\ daemon.pc = "wait"
    /\ daemon' = [daemon EXCEPT !.pc = "top"]
    /\ UNCHANGED <<please_stop, next_tuid, svcVars, allocVars, diffVars, annVars,
                   flowVars, pyVars>>

\* the owner of the daemon thread raises please_stop
Stop ==
    /\ ~please_stop
    /\ daemon.pc \notin {"stopped", "dead"}
    /\ please_stop' = TRUE
    /\ UNCHANGED <<daemon, next_tuid, svcVars, allocVars, diffVars, annVars,
                   flowVars, pyVars>>

\* the tables after get_tuids_from_files(["a", "b"], 0); in the second case
\* also after get_tuids_from_files(["c"], revision, repo=branch) for a
\* revision of try, which the branch guard does not look at: the frontier row
\* of c names a revision that is not in the changelog of the branch
InitDaemon ==
    /\ temporal = StoredBefore(TRUE).temporal
    /\ annotations = StoredBefore(TRUE).annotations
    /\ \E stray \in BOOLEAN :
          latestFileMod = upsert_frontiers(StoredBefore(TRUE).latestFileMod,
                                           IF stray THEN {"c"} ELSE {}, TryRev)
    /\ answered = StoredBefore(TRUE).answered
    /\ next_tuid = init_next_tuid(temporal)
    /\ temporal_locker = NoOne
    /\ req = [p \in Procs |-> Idle]
    /\ nreq = 0
    /\ locker = NoOne /\ tpc = <<>> /\ tval = <<>> /\ tload = <<>>
    /\ returned = <<>> /\ init_tuid = 1
    /\ d_ann = <<>> /\ d_file = "" /\ d_lines = <<>> /\ d_ann0 = <<>>
    /\ d_last = [kind |-> "none"] /\ d_steps = 0
    /\ NoAnnThreads
    /\ daemon = [pc |-> "top", revs |-> <<>>, left |-> {}, ran_changesets |-> FALSE,
                 frontier |-> NoRev, files |-> <<>>, csets |-> <<>>, final_rev |-> NoRev,
                 calls |-> <<>>, started |-> 0, pages |-> 0]
    /\ please_stop = FALSE
    /\ NoFlow
    /\ NoPy

DaemonSteps ==
    \/ DaemonTop
    \/ DaemonGroup
    \/ \E answer \in {"log", "error"} : DaemonPage(answer)
    \/ DaemonCset
    \/ DaemonResolve
    \/ DaemonReturned
    \/ DaemonWait
    \/ MoveCompute(Caller)
    \/ MoveWrite(Caller)
    \/ MoveAcquire(Caller)
    \/ MoveAcquireLock(Caller)
    \/ MoveAcquireFinish(Caller)
    \/ Return(Caller)

NextDaemon == DaemonSteps \/ Stop

SpecDaemon == InitDaemon /\ [][NextDaemon]_vars

\* the steps of the daemon thread that its scheduling guarantees: every step
\* but a failing get_clog; the call of line 1552 runs on the daemon thread
DaemonThread ==
    \/ DaemonTop
    \/ DaemonGroup
    \/ DaemonPage("log")
    \/ DaemonCset
    \/ DaemonResolve
    \/ DaemonReturned
    \/ DaemonWait
    \/ MoveWrite(Caller)
    \/ MoveAcquire(Caller)
    \/ MoveAcquireLock(Caller)
    \/ MoveAcquireFinish(Caller)
    \/ Return(Caller)

\* the daemon thread keeps running; nobody else holds temporal_locker here, so
\* MoveCompute(Caller) is enabled exactly when the call is at "move", and weak
\* fairness of it is the last conjunct
SpecDaemonFair ==
    /\ SpecDaemon
    /\ WF_vars(DaemonThread)
    /\ []<>(req[Caller].pc # "move")

(***************************************************************************)
(* SpecFlow: the paths through get_tuids_from_files (lines 491-522 and     *)
(* 604-717) as far as they touch service_threads_running and the caching   *)
(* signal of the clogger.  One caller makes its calls one after the other; *)
(* the threads a call starts run on after it has returned.                 *)
(***************************************************************************)
MaxFlowCalls == 2

\* len(new_files) and len(frontier_update_list) of a call
FlowCounts == {0, 6, 250}

\* everything but the variables of SpecFlow
otherThanFlow == <<next_tuid, svcVars, allocVars, diffVars, annVars, daemonVars, pyVars>>

\* lines 418-420 and 422-424, under service_thread_locker
add_thread(n) == n + 1

remove_thread(n) == n - 1

\* start_cache_daemon(etl) (lines 431-434): caching_signal.go() when etl
start_cache_daemon(signal, etl) == IF etl THEN TRUE ELSE signal

\* new_files and frontier_update_list of a call, of which only the lengths count
FlowFiles(n) == [i \in 1..n |-> "a"]

\* lines 669-672
is_threaded(c) ==
    threaded_over(c.use_thread, FlowFiles(c.n_new), FlowFiles(c.n_front))

\* lines 682-696: the threads the call starts
flow_threads(c) == thread_count(0, FlowFiles(c.n_new), FlowFiles(c.n_front))

NoWorkers == \A e \in BOOLEAN : workers[e] = 0

\* lines 491-498: an etl call stops the caching, then _add_thread()
FlowCall(etl, repo, check, n_new, n_front, use_thread) ==
    /\ flow.pc = "idle"
    /\ flow.ncalls < MaxFlowCalls
    /\ caching_signal' = IF etl /\ caching_signal THEN FALSE ELSE caching_signal
    /\ service_threads_running' = add_thread(service_threads_running)
    /\ flow' = [pc |-> "guard", ncalls |-> flow.ncalls + 1, etl |-> etl, repo |-> repo,
                check |-> check, n_new |-> n_new, n_front |-> n_front,
                use_thread |-> use_thread, path |-> "", left |-> 0,
                switched |-> etl /\ caching_signal]
    /\ UNCHANGED <<workers, otherThanFlow>>

\* lines 501-522: the branch guard and the try repo
FlowGuard ==
    /\ flow.pc = "guard"
    /\ IF flow.repo = NoRepo /\ ~flow.check
       THEN /\ service_threads_running' = remove_thread(service_threads_running)
            /\ caching_signal' = start_cache_daemon(caching_signal, flow.etl)
            /\ flow' = [flow EXCEPT !.pc = "returned", !.path = "guard"]
       ELSE IF flow.repo = "try"
       THEN /\ service_threads_running' = remove_thread(service_threads_running)
            /\ flow' = [flow EXCEPT !.pc = "returned", !.path = "try"]
            /\ UNCHANGED caching_signal
       ELSE /\ flow' = [flow EXCEPT !.pc = "work"]
            /\ UNCHANGED <<service_threads_running, caching_signal>>
    /\ UNCHANGED <<workers, otherThanFlow>>

\* lines 669-703: the threads are started, or update_tuids_in_thread runs in
\* the caller, its etl left at the default True, up to the end of its finally
\* clause (lines 659-666)
FlowWork ==
    /\ flow.pc = "work"
    /\ IF is_threaded(flow)
       THEN /\ workers' = [workers EXCEPT ![flow.etl] =
                              @ + flow_threads(flow)]
            /\ flow' = [flow EXCEPT !.pc = "adding", !.path = "threaded",
                                    !.left = flow_threads(flow) - 1]
            /\ UNCHANGED <<service_threads_running, caching_signal>>
       ELSE /\ service_threads_running' = remove_thread(service_threads_running)
            /\ caching_signal' = start_cache_daemon(caching_signal, TRUE)
            /\ flow' = [flow EXCEPT !.pc = "inline", !.path = "inline"]
            /\ UNCHANGED workers
    /\ UNCHANGED otherThanFlow

\* lines 697-698: for _ in range(1, thread_count): self._add_thread()
FlowAddThread ==
    /\ flow.pc = "adding"
    /\ flow.left > 0
    /\ service_threads_running' = add_thread(service_threads_running)
    /\ flow' = [flow EXCEPT !.left = @ - 1]
    /\ UNCHANGED <<caching_signal, workers, otherThanFlow>>

\* line 704: self._remove_thread() after the inline run
FlowRemove ==
    /\ flow.pc = "inline"
    /\ service_threads_running' = remove_thread(service_threads_running)
    /\ flow' = [flow EXCEPT !.pc = "finish"]
    /\ UNCHANGED <<caching_signal, workers, otherThanFlow>>

\* lines 706-717: start_cache_daemon(etl=(etl and not threaded)); return
FlowFinish ==
    /\ \/ flow.pc = "finish"
       \/ flow.pc = "adding" /\ flow.left = 0
    /\ caching_signal' = start_cache_daemon(caching_signal,
                                            flow.etl /\ ~is_threaded(flow))
    /\ flow' = [flow EXCEPT !.pc = "returned"]
    /\ UNCHANGED <<service_threads_running, workers, otherThanFlow>>

\* the caller has its answer
FlowReturn ==
    /\ flow.pc = "returned"
    /\ flow' = [flow EXCEPT !.pc = "idle"]
    /\ UNCHANGED <<service_threads_running, caching_signal, workers, otherThanFlow>>

\* lines 659-661: the finally clause of a thread started with etl = e
WorkerFinish(e) ==
    /\ workers[e] > 0
    /\ workers' = [workers EXCEPT ![e] = @ - 1]
    /\ service_threads_running' = remove_thread(service_threads_running)
    /\ caching_signal' = start_cache_daemon(caching_signal, e)
    /\ UNCHANGED <<flow, otherThanFlow>>

\* __init__ (line 85); the clogger is caching or not
InitFlow ==
    /\ service_threads_running = 0
    /\ caching_signal \in BOOLEAN
    /\ flow = [pc |-> "idle", ncalls |-> 0, etl |-> FALSE, repo |-> NoRepo,
               check |-> TRUE, n_new |-> 0, n_front |-> 0, use_thread |-> TRUE,
               path |-> "", left |-> 0, switched |-> FALSE]
    /\ workers = [e \in BOOLEAN |-> 0]
    /\ next_tuid = 1 /\ temporal = NoRow
    /\ annotations = <<>> /\ latestFileMod = <<>> /\ temporal_locker = NoOne
    /\ req = <<>> /\ nreq = 0 /\ answered = <<>>
    /\ locker = NoOne /\ tpc = <<>> /\ tval = <<>> /\ tload = <<>>
    /\ returned = <<>> /\ init_tuid = 1
    /\ d_ann = <<>> /\ d_file = "" /\ d_lines = <<>> /\ d_ann0 = <<>>
    /\ d_last = [kind |-> "none"] /\ d_steps = 0
    /\ NoAnnThreads
    /\ NoDaemon
    /\ NoPy

NextFlow ==
    \/ \E etl \in BOOLEAN, repo \in Repos, check \in BOOLEAN,
          n_new \in FlowCounts, n_front \in FlowCounts, use_thread \in BOOLEAN :
          FlowCall(etl, repo, check, n_new, n_front, use_thread)
    \/ FlowGuard
    \/ FlowWork
    \/ FlowAddThread
    \/ FlowRemove
    \/ FlowFinish
    \/ FlowReturn
    \/ \E e \in BOOLEAN : WorkerFinish(e)

SpecFlow == InitFlow /\ [][NextFlow]_vars

(***************************************************************************)
(* SpecPy: mo_threads.Python (src/vendor/mo_threads/python.py).  Threads   *)
(* call _execute; the subprocess answers every command it reads with an    *)
(* "out" or an "err" line; the thread of _daemon reads the lines.  A Lock  *)
(* is held by one thread at a time and a Signal, once gone, lets every     *)
(* wait() on it return.                                                    *)
(***************************************************************************)
MaxPyCalls == 2      \* _execute calls per thread

PyThreads == {1, 2}

\* the holder of self.lock when it is the thread of _daemon
PyReader == 3

\* None, as the value of current_task, current_response and current_error
PyNone == 0

\* the command of the n-th call of thread t
Command(t, n) == 10 * t + n

Commands == {Command(t, n) : t \in PyThreads, n \in 1..MaxPyCalls}

AttributeError == [kind |-> "AttributeError", of |-> PyNone]

\* everything but the variables of SpecPy
otherThanPy == <<next_tuid, svcVars, allocVars, diffVars, annVars, daemonVars, flowVars>>

\* a thread calls _execute(command)
PyCall(t) ==
    /\ py[t].pc \in {"idle", "done"}
    /\ py[t].ncalls < MaxPyCalls
    /\ py' = [py EXCEPT ![t] = [pc |-> "enter", ncalls |-> @.ncalls + 1,
                                command |-> Command(t, @.ncalls + 1),
                                task |-> PyNone, ret |-> [kind |-> "", of |-> PyNone]]]
    /\ UNCHANGED <<proxy, reader, otherThanPy>>

\* line 42: with self.lock
PyLock(t) ==
    /\ py[t].pc = "enter"
    /\ proxy.lock = NoOne
    /\ proxy' = [proxy EXCEPT !.lock = t]
    /\ py' = [py EXCEPT ![t].pc = "locked"]
    /\ UNCHANGED <<reader, otherThanPy>>

\* line 43: if self.current_task is not None
PyCheck(t) ==
    /\ py[t].pc = "locked"
    /\ py' = [py EXCEPT ![t].pc = IF proxy.current_task # PyNone THEN "wait_prev" ELSE "set",
                        ![t].task = proxy.current_task]
    /\ UNCHANGED <<proxy, reader, otherThanPy>>

\* line 44: self.current_task.wait(), inside the with block
PyWaitPrev(t) ==
    /\ py[t].pc = "wait_prev"
    /\ py[t].task \in proxy.gone
    /\ py' = [py EXCEPT ![t].pc = "set"]
    /\ UNCHANGED <<proxy, reader, otherThanPy>>

\* lines 45-47 and the end of the with block
PySet(t) ==
    /\ py[t].pc = "set"
    /\ proxy' = [proxy EXCEPT !.current_task = proxy.signals + 1,
                              !.signals = @ + 1,
                              !.current_response = PyNone,
                              !.current_error = PyNone,
                              !.lock = NoOne]
    /\ py' = [py EXCEPT ![t].pc = "send"]
    /\ UNCHANGED <<reader, otherThanPy>>

\* line 48: self.process.stdin.add(value2json(command))
PySend(t) ==
    /\ py[t].pc = "send"
    /\ proxy' = [proxy EXCEPT !.stdin = Append(@, py[t].command)]
    /\ py' = [py EXCEPT ![t].pc = "wait"]
    /\ UNCHANGED <<reader, otherThanPy>>

\* line 49: self.current_task is read, outside the lock; .wait() on None
\* raises
PyWait(t) ==
    /\ py[t].pc = "wait"
    /\ py' = [py EXCEPT ![t] =
                 IF proxy.current_task = PyNone
                 THEN [@ EXCEPT !.pc = "done", !.ret = AttributeError]
                 ELSE [@ EXCEPT !.pc = "waiting", !.task = proxy.current_task]]
    /\ UNCHANGED <<proxy, reader, otherThanPy>>

\* line 49: the wait returns once the signal has gone
PyWoken(t) ==
    /\ py[t].pc = "waiting"
    /\ py[t].task \in proxy.gone
    /\ py' = [py EXCEPT ![t].pc = "relock"]
    /\ UNCHANGED <<proxy, reader, otherThanPy>>

\* line 50: with self.lock
PyRelock(t) ==
    /\ py[t].pc = "relock"
    /\ proxy.lock = NoOne
    /\ proxy' = [proxy EXCEPT !.lock = t]
    /\ py' = [py EXCEPT ![t].pc = "read"]
    /\ UNCHANGED <<reader, otherThanPy>>

\* the value kept by lines 52-55, the raised error or the response
execute_result(p) ==
    IF p.current_error # PyNone THEN [kind |-> "err", of |-> p.current_error]
    ELSE [kind |-> "out", of |-> p.current_response]

\* lines 51-59: the result, the finally clause and the end of the with block
PyFinish(t) ==
    /\ py[t].pc = "read"
    /\ py' = [py EXCEPT ![t].pc = "done", ![t].ret = execute_result(proxy)]
    /\ proxy' = [proxy EXCEPT !.current_task = PyNone,
                              !.current_response = PyNone,
                              !.current_error = PyNone,
                              !.lock = NoOne]
    /\ UNCHANGED <<reader, otherThanPy>>

\* the subprocess reads a command and writes its answer
SubAnswer(kind) ==
    /\ proxy.stdin # <<>>
    /\ proxy' = [proxy EXCEPT !.stdin = Tail(@),
                              !.stdout = Append(@, [kind |-> kind, of |-> Head(proxy.stdin)]),
                              !.answers = [@ EXCEPT ![Head(proxy.stdin)] = kind]]
    /\ UNCHANGED <<py, reader, otherThanPy>>

\* lines 63-67: line = self.process.stdout.pop(till=please_stop)
RdPop ==
    /\ reader.pc = "pop"
    /\ proxy.stdout # <<>>
    /\ reader' = [reader EXCEPT !.pc = "deliver", !.data = Head(proxy.stdout)]
    /\ proxy' = [proxy EXCEPT !.stdout = Tail(@)]
    /\ UNCHANGED <<py, otherThanPy>>

\* lines 70-79: under self.lock the value is stored and current_task.go() is
\* called; with current_task None the call raises, and line 78 swallows it
RdDeliver ==
    /\ reader.pc = "deliver"
    /\ proxy.lock = NoOne
    /\ proxy' = [proxy EXCEPT
                    !.current_response = IF reader.data.kind = "out" THEN reader.data.of
                                         ELSE @,
                    !.current_error = IF reader.data.kind = "err" THEN reader.data.of
                                      ELSE @,
                    !.gone = IF proxy.current_task = PyNone THEN @
                             ELSE @ \cup {proxy.current_task}]
    /\ reader' = [reader EXCEPT !.pc = "pop",
                                !.failed = IF proxy.current_task = PyNone THEN @ + 1 ELSE @]
    /\ UNCHANGED <<py, otherThanPy>>

\* __init__ (lines 33-38)
InitPy ==
    /\ proxy = [lock |-> NoOne, current_task |-> PyNone, current_response |-> PyNone,
                current_error |-> PyNone, signals |-> 0, gone |-> {},
                stdin |-> <<>>, stdout |-> <<>>, answers |-> [c \in Commands |-> ""]]
    /\ py = [t \in PyThreads |-> [pc |-> "idle", ncalls |-> 0, command |-> PyNone,
                                  task |-> PyNone, ret |-> [kind |-> "", of |-> PyNone]]]
    /\ reader = [pc |-> "pop", data |-> [kind |-> "", of |-> PyNone], failed |-> 0]
    /\ next_tuid = 1 /\ temporal = NoRow
    /\ annotations = <<>> /\ latestFileMod = <<>> /\ temporal_locker = NoOne
    /\ req = <<>> /\ nreq = 0 /\ answered = <<>>
    /\ locker = NoOne /\ tpc = <<>> /\ tval = <<>> /\ tload = <<>>
    /\ returned = <<>> /\ init_tuid = 1
    /\ d_ann = <<>> /\ d_file = "" /\ d_lines = <<>> /\ d_ann0 = <<>>
    /\ d_last = [kind |-> "none"] /\ d_steps = 0
    /\ NoAnnThreads
    /\ NoDaemon
    /\ NoFlow

\* the steps of thread t inside _execute
PyInside(t) ==
    \/ PyCheck(t)
    \/ PyWaitPrev(t)
    \/ PySet(t)
    \/ PySend(t)
    \/ PyWait(t)
    \/ PyWoken(t)
    \/ PyFinish(t)

PySubprocess == \E kind \in {"out", "err"} : SubAnswer(kind)

NextPy ==
    \/ \E t \in PyThreads : PyCall(t) \/ PyLock(t) \/ PyRelock(t) \/ PyInside(t)
    \/ PySubprocess
    \/ RdPop
    \/ RdDeliver

SpecPy == InitPy /\ [][NextPy]_vars

\* every thread inside _execute keeps running and gets the lock when it is
\* free again and again; the subprocess answers; the reader thread runs
SpecPyFair ==
    /\ SpecPy
    /\ \A t \in PyThreads :
          WF_vars(PyInside(t)) /\ SF_vars(PyLock(t)) /\ SF_vars(PyRelock(t))
    /\ WF_vars(PySubprocess)
    /\ WF_vars(RdPop)
    /\ SF_vars(RdDeliver)

----------------------------------------------------------------------------
\* C1: under any interleaving of threads calling tuid(), no two calls return
\* the same TUID, and whenever no call is in progress the in-memory counter
\* equals its initial value plus the number of calls made.
C1_UniqueAndCounted ==
    /\ \A i, j \in 1..Len(returned) : i # j => returned[i].tuid # returned[j].tuid
    /\ (\A t \in Threads : tpc[t] = "idle") => next_tuid = init_tuid + Len(returned)

\* every thread has made all its calls, interleaved with the others
C1_Witness ==
    /\ Len(returned) = NumThreads * MaxCalls
    /\ \E i \in 1..(Len(returned) - 1) : returned[i].thread # returned[i + 1].thread
    /\ \A t \in Threads : tpc[t] = "idle"

\* C6: walking an annotation through diffs, every line of the starting
\* revision that hg still has in the file carries the TUID it started with, at
\* the position hg has the line at, and the annotation is as long as the file.
C6_LineIdentity ==
    /\ Len(d_ann) = Len(d_lines)
    /\ \A i \in 1..Len(d_lines) :
          d_lines[i][1] = 0 =>
              /\ d_ann[i].tuid = d_ann0[d_lines[i][2]].tuid
              /\ d_ann[i].line = i

\* a walk that removed a line and added one, with original lines on both sides
C6_Witness ==
    /\ d_last.kind = "edit"
    /\ Len(d_ann0) >= 2 /\ Len(d_lines) >= 3
    /\ \E i, j, k \in 1..Len(d_lines) :
          i < j /\ j < k /\ d_lines[i][1] = 0 /\ d_lines[j][1] > 0 /\ d_lines[k][1] = 0

\* the TUIDs of a stored annotation
TuidsOf(ann) == IF ann.k = "list" THEN Range(ann.tuids) ELSE {}

StoredTuids == UNION {TuidsOf(annotations[k]) : k \in Keys}

Quiescent == \A p \in Procs : req[p].pc = "idle"

\* C2: in every reachable state the high-water mark persisted in temporal is
\* at least every TUID held by a stored annotation.
C2_HwmCoversStored == \A t \in StoredTuids : temporal >= t

\* C3: whenever the process (re)starts, the next TUID the allocator returns is
\* above every TUID already held by a stored annotation, so none is issued anew.
C3_NoReissue == \A t \in StoredTuids : t < next_tuid

\* C4: no TUID occurs at two positions of one stored annotation, and no TUID
\* occurs in the stored annotations of two different files.
C4_TuidsDisjoint ==
    LET ListKeys == {k \in Keys : annotations[k].k = "list"}
    IN  /\ \A k \in ListKeys :
              \A i, j \in 1..Len(annotations[k].tuids) :
                  i # j => annotations[k].tuids[i] # annotations[k].tuids[j]
        /\ \A k1, k2 \in ListKeys :
              k1[2] # k2[2] =>
                  \A i \in 1..Len(annotations[k1].tuids), j \in 1..Len(annotations[k2].tuids) :
                      annotations[k1].tuids[i] # annotations[k2].tuids[j]

\* both files hold TUIDs, and a's annotation has been moved to changeset 1
\* with a line added there
C4_Witness ==
    /\ annotations[<<0, "a">>].k = "list"
    /\ annotations[<<1, "a">>].k = "list"
    /\ TuidsOf(annotations[<<1, "a">>]) \cap TuidsOf(annotations[<<0, "a">>]) # {}
    /\ TuidsOf(annotations[<<1, "a">>]) \ TuidsOf(annotations[<<0, "a">>]) # {}
    /\ \E r \in Revs : annotations[<<r, "b">>].k = "list"

\* C5: when no call is in progress, every file with a row Frontier(f) = r in
\* latestFileMod has a stored Annotation(r, f).
C5_FrontierHasAnnotation ==
    Quiescent =>
        \A f \in Files :
            latestFileMod[f] # NoRev => ~IsNone(annotations[<<latestFileMod[f], f>>])

\* C7: when two calls for the same file at two different revisions are in
\* progress together and both have finished their work, the two stored
\* annotations give every line the two revisions share the same TUID.
C7_ConcurrentConsistent ==
    \A p, q \in Procs, f \in Files :
        LET rp == req[p].revision
            rq == req[q].revision
            ap == annotations[<<rp, f>>]
            aq == annotations[<<rq, f>>]
            lp == HgRepoAt[rp][f].lines
            lq == HgRepoAt[rq][f].lines
        IN  (/\ p # q
             /\ req[p].pc = "done" /\ req[q].pc = "done"
             /\ req[p].files = <<f>> /\ req[q].files = <<f>>
             /\ rp # rq
             /\ ap.k = "list" /\ aq.k = "list"
             /\ Len(ap.tuids) = Len(lp) /\ Len(aq.tuids) = Len(lq))
            => \A i \in 1..Len(lp), j \in 1..Len(lq) :
                   lp[i] = lq[j] => ap.tuids[i] = aq.tuids[j]

\* C8: every stored annotation has as many entries as the file has lines
\* upstream at that revision, none when the file is absent there.
C8_LengthIsLineCount ==
    \A k \in Keys :
        ~IsNone(annotations[k]) =>
            Len(lines_of(annotations[k])) = hg_line_count(k[1], k[2])

\* C9: a call for one file at a revision that an earlier, completed call has
\* answered, and that answers for the file itself, returns the same list and
\* allocates no TUID.
C9_RepeatSameAnswer ==
    \A p \in Procs :
        (/\ req[p].pc = "done"
         /\ Len(req[p].files) = 1
         /\ req[p].prior[req[p].files[1]] # NotAnswered
         /\ AnswerFor(req[p].result, req[p].files[1]) # NotAnswered)
        => /\ AnswerFor(req[p].result, req[p].files[1]) = req[p].prior[req[p].files[1]]
           /\ req[p].allocs = 0

\* C10: a call that finds the dummy annotation stored for (revision, file)
\* answers the empty list for the file, and the dummy is still stored when
\* the call is done.
C10_TombstoneStays ==
    \A p \in Procs :
        req[p].pc = "done" =>
            \A f \in req[p].tomb :
                /\ AnswerFor(req[p].result, f) = <<>>
                /\ annotations[<<req[p].revision, f>>] = DummyAnn

\* a call for b at changeset 0, where b is stored as the dummy, is done while
\* b holds TUIDs at another changeset
C10_Witness ==
    \E p \in Procs :
        /\ req[p].pc = "done"
        /\ req[p].tomb # {}
        /\ \E f \in req[p].tomb, r \in Revs : annotations[<<r, f>>].k = "list"

\* C11: _apply_diff given a diff whose merge flag is true returns the
\* annotation and the file name it was given, calls tuid() not once and does
\* not write temporal.
C11_MergeIsIdentity ==
    d_last.kind = "merge" =>
        /\ d_ann = d_last.ann
        /\ d_file = d_last.file
        /\ next_tuid = d_last.next
        /\ temporal = d_last.temporal

\* a merge diff applied to a non-empty annotation that an earlier diff has
\* already changed
C11_Witness ==
    /\ d_last.kind = "merge"
    /\ Len(d_ann) > 0
    /\ d_ann # d_ann0

\* C15: under every interleaving of acquirers and frontier movers, a value
\* stored under a key (revision, file) is never replaced by a different value:
\* the first committed write wins.
C15_FirstWriteWins ==
    [][\A k \in Keys : annotations[k] # NoAnn => annotations'[k] = annotations[k]]_vars

\* C16: when two calls both route the same file as new at the same revision
\* and both are answered for it, the two answers are the same list, that list
\* is what is stored under (revision, file), and one of the two calls (having
\* new files only) has allocated no TUID, so that no TUID of the loser is
\* stored anywhere.
C16_RaceSameAnswer ==
    \A p, q \in Procs :
        (/\ p # q
         /\ req[p].pc = "done" /\ req[q].pc = "done"
         /\ req[p].revision = req[q].revision)
        => \A f \in Range(req[p].new_files) \cap Range(req[q].new_files) :
               LET ap == AnswerFor(req[p].result, f)
                   aq == AnswerFor(req[q].result, f)
               IN  (ap # NotAnswered /\ aq # NotAnswered)
                   => /\ ap = aq
                      /\ ap = lines_of(annotations[<<req[p].revision, f>>])
                      /\ (/\ req[p].frontier_update_list = <<>>
                          /\ req[q].frontier_update_list = <<>>)
                         => (req[p].allocs = 0 \/ req[q].allocs = 0)

\* both calls have fetched a before either entered _get_tuids, and both are
\* answered with its three TUIDs
C16_Witness ==
    \E p, q \in Procs :
        /\ p # q
        /\ req[p].pc = "done" /\ req[q].pc = "done"
        /\ req[p].revision = req[q].revision
        /\ req[p].new_files = <<"a">> /\ req[q].new_files = <<"a">>
        /\ req[p].to_get = <<"a">> /\ req[q].to_get = <<"a">>
        /\ Len(AnswerFor(req[p].result, "a")) = 3
        /\ AnswerFor(req[q].result, "a") = AnswerFor(req[p].result, "a")

\* C12: a call that passes the branch guard returns completed = False exactly
\* when use_thread is true and the new files plus the files with a frontier to
\* move number more than FILES_TO_PROCESS_THRESH; the work is then with a
\* worker thread and the pairs returned are those of the files found in the
\* index, in request order; otherwise completed = True and the call answers
\* only after the work has run, with an entry for every file.
C12_CompletedIffInline ==
    \A p \in Procs :
        (req[p].pc # "idle" /\ ~req[p].rejected) =>
            LET r == req[p]
                fl == r.frontier_update_list
                over == r.use_thread
                        /\ Len(r.new_files) + Len(fl) > FILES_TO_PROCESS_THRESH
                rest == Range(r.new_files) \cup {fl[i][1] : i \in 1..Len(fl)}
            IN  /\ r.completed = ~over
                /\ r.threaded = over
                /\ [i \in 1..Len(r.hits) |-> r.hits[i].file]
                       = SelectSeq(r.files, LAMBDA f : f \notin rest)
                /\ over => Response(r) = r.hits
                /\ (~over /\ r.pc = "done")
                      => /\ Len(Response(r)) = Len(r.files)
                         /\ SubSeq(Response(r), 1, Len(r.hits)) = r.hits

\* a call for seven files is answered with the one file in the index and
\* completed = False, and its worker has finished the other six
C12_Witness ==
    \E p \in Procs :
        /\ req[p].pc = "done"
        /\ ~req[p].completed
        /\ Len(req[p].files) = 7
        /\ Len(req[p].hits) = 1
        /\ Len(req[p].result) = 7
        /\ \A i \in 1..7 : req[p].result[i] # NotAPair

\* C14: a call made with repo=None for a revision that json-log does not find
\* in the default branch returns (file, []) for every file with completed =
\* True, and changes neither the annotations, nor latestFileMod, nor next_tuid,
\* nor temporal.
C14_BranchGuard ==
    [][\A p \in Procs :
          (req[p].pc = "idle" /\ req'[p].pc # "idle" /\ req'[p].not_in_branch)
          => /\ req'[p].pc = "done"
             /\ Response(req'[p]) = Empties(req'[p].files)
             /\ req'[p].completed
             /\ UNCHANGED <<annotations, latestFileMod, next_tuid, temporal>>]_vars

\* a call for seven files, two of them in the index, has been turned away
C14_Witness ==
    \E p \in Procs :
        /\ req[p].pc = "done"
        /\ req[p].not_in_branch
        /\ Len(req[p].result) = 7
        /\ \E f \in Range(req[p].files) : annotations[<<req[p].revision, f>>] # NoAnn

\* the files of a request that were not among the pairs of its first response
NotReturned(r) == Range(r.files) \ {r.hits[i].file : i \in 1..Len(r.hits)}

NoFailure(r) ==
    /\ ~r.clog_failed
    /\ ~r.move_failed
    /\ NotAPair \notin Range(r.result)

C17_SlotsBounded ==
    /\ num_requests >= 0
    /\ num_requests <= MAX_CONCURRENT_ANN_REQUESTS

\* five requests are in flight and a sixth thread is in the loop, kept out
C17_Witness ==
    /\ num_requests = MAX_CONCURRENT_ANN_REQUESTS
    /\ Cardinality({t \in AnnThreads : apc[t] = "http"}) = MAX_CONCURRENT_ANN_REQUESTS
    /\ \E t \in AnnThreads : apc[t] = "loop" /\ ~atimeout[t]

\* C18: a call during which the changelog request of _update_file_frontiers
\* fails returns (file, []) for every requested file, with completed = True.
C18_ClogFailureEmpties ==
    \A p \in Procs :
        (req[p].pc = "done" /\ req[p].clog_failed)
        => /\ Response(req[p]) = Empties(req[p].files)
           /\ req[p].completed

\* C19: when the fetch of a new file fails, the call returns no TUID for that
\* file, no dummy annotation is stored for it, its frontier is what it was
\* when the call began, and every other file of the call is answered with a
\* pair that holds what is stored for it.
C19_FailedFetchIsLocal ==
    \A p \in Procs :
        (req[p].pc = "done" /\ req[p].fetch_failed \in Range(req[p].new_files))
        => LET r == req[p]
               f == r.fetch_failed
           IN  /\ AnswerFor(Response(r), f) \in {<<>>, NotAnswered}
               /\ annotations[<<r.revision, f>>] # DummyAnn
               /\ latestFileMod[f] # r.revision
               /\ \A g \in Range(r.files) \ {f} :
                      /\ AnswerFor(Response(r), g) # NotAnswered
                      /\ AnswerFor(Response(r), g)
                            = lines_of(annotations[<<r.revision, g>>])

\* the reference the forward applier is compared with, over lists of TUIDs:
\* changes taken in the order given, '+' placing the next fresh TUID at
\* position line + 1, '-' dropping the entry at position line + 1
RECURSIVE RefChanges(_, _, _)
RefChanges(tuids, changes, fresh) ==
    IF changes = <<>> THEN tuids
    ELSE LET c   == Head(changes)
             pos == c.line + 1
         IN  IF c.action = "+"
             THEN RefChanges(SubSeq(tuids, 1, pos - 1) \o <<fresh>>
                             \o SubSeq(tuids, pos, Len(tuids)), Tail(changes), fresh + 1)
             ELSE RefChanges(SubSeq(tuids, 1, pos - 1)
                             \o SubSeq(tuids, pos + 1, Len(tuids)), Tail(changes), fresh)

\* the first entry of the diff naming the file decides; none leaves the list
RefApply(tuids, diff, file, fresh) ==
    IF file \notin Names(diff.diffs) THEN tuids
    ELSE LET e == EntryOf(diff.diffs, file)
         IN  IF e.new = DEVNULL THEN <<>>
             ELSE RefChanges(tuids, e.changes, fresh)

TuidList(ann) == [i \in 1..Len(ann) |-> ann[i].tuid]

\* C20: for a diff that is not a merge, _apply_diff returns what the reference
\* gives: the changes of the first entry naming the file applied in order, '+'
\* inserting a freshly allocated TUID, greater than every TUID allocated
\* before, at position line + 1, '-' removing the entry at position line + 1,
\* a new name of dev/null giving the empty annotation; every entry returned
\* carries its position as its line.
C20_EqualsReference ==
    d_last.kind \notin {"none", "merge"} =>
        /\ TuidList(d_ann) = RefApply(TuidList(d_last.ann), d_last.diff, d_last.file, d_last.next)
        /\ \A i \in 1..Len(d_ann) :
              /\ d_ann[i].line = i
              /\ d_ann[i].tuid \notin Range(TuidList(d_last.ann)) =>
                    /\ d_ann[i].tuid >= d_last.next
                    /\ \A j \in 1..Len(d_last.ann) : d_last.ann[j].tuid < d_ann[i].tuid

\* the example: [t1, t2, t3], a line added at position 2 and then line 3
\* removed, by one diff, leaves [t1, t4, t3] with t4 fresh
C20_Witness ==
    /\ d_last.kind = "edit"
    /\ Len(d_last.ann) = 3
    /\ d_last.diff.diffs[1].changes = <<[action |-> "+", line |-> 1], [action |-> "-", line |-> 2]>>
    /\ TuidList(d_ann) = <<d_last.ann[1].tuid, d_last.next, d_last.ann[3].tuid>>
    /\ \A j \in 1..3 : d_last.next > d_last.ann[j].tuid

\* a call that met no failure of hg, of the changelog or of a diff step
Unfailed(r) == ~r.clog_failed /\ ~r.move_failed /\ r.fetch_failed = ""

\* C21: with Annotation(1, a) stored and answered and Frontier(a) = 1, where
\* changeset 2 renames a to b without edits, a call for b at changeset 2
\* answers the TUIDs of Annotation(1, a) and allocates nothing, and a call
\* for a at changeset 2, moving a's frontier from 1, answers the empty list.
C21_RenameKeepsTuids ==
    \A p \in Procs :
        LET r == req[p]
            old == annotations[<<1, "a">>]
        IN  (/\ r.pc = "done" /\ r.revision = 2 /\ Unfailed(r)
             /\ \A q \in Procs \ {p} : req[q].pc = "idle"
             /\ Truthy(old) /\ answered[<<1, "a">>] = lines_of(old))
            => /\ (r.files = <<"b">> /\ latestFileMod["a"] = 1)
                    => /\ AnswerFor(Response(r), "b") = lines_of(old)
                       /\ r.allocs = 0
               /\ (r.files = <<"a">> /\ r.frontier_update_list = << <<"a", 1>> >>)
                    => AnswerFor(Response(r), "a") = <<>>

\* the lists a response holds for file
AnswersFor(result, file) == {result[i].tuids : i \in {j \in 1..Len(result) : result[j].file = file}}

\* C22: a call for one file at a revision older than the file's frontier,
\* made when an earlier call has been answered for the file at that revision,
\* answers, when it answers for the file, the list the earlier call was given.
C22_BackIsIdentity ==
    \A p \in Procs :
        LET r == req[p]
            f == r.files[1]
        IN  (/\ r.pc = "done" /\ Len(r.files) = 1
             /\ r.frontier[f] # NoRev /\ r.frontier[f] > r.revision
             /\ r.prior[f] # NotAnswered
             /\ AnswersFor(Response(r), f) # {})
            => AnswersFor(Response(r), f) = {r.prior[f]}

\* C23: the classification pass of a call (the step that counts the call),
\* which refreshes the frontier of the files it answers from the index, moves
\* no file's frontier to a revision older than the one it has.
C23_HitKeepsFrontier ==
    [][nreq' = nreq + 1 =>
          \A f \in Files : latestFileMod[f] # NoRev => latestFileMod'[f] >= latestFileMod[f]]_vars

\* C24: when the classification pass of a call meets a file whose frontier
\* is the requested revision while no annotation is stored for (revision,
\* file), the file's row of latestFileMod is deleted in that pass and the file
\* is among the call's new files.
C24_StaleFrontierDeleted ==
    [][\A p \in Procs, f \in Files :
          (/\ req[p].pc = "idle" /\ req'[p].pc # "idle"
           /\ ~req'[p].rejected
           /\ f \in Range(req'[p].files)
           /\ latestFileMod[f] = req'[p].revision
           /\ IsNone(annotations[<<req'[p].revision, f>>]))
          => /\ latestFileMod'[f] = NoRev
             /\ f \in Range(req'[p].new_files)]_vars

\* C25: when a diff step has failed for the one file of a frontier move, the
\* steps of the mover that follow leave the file's row of latestFileMod as it
\* is; and a mover in which a step has failed has still gone through every
\* file of its list.
C25_FailedStepKeepsFrontier ==
    [][\A p \in Procs :
          (/\ req[p].pc = "move_write" /\ req'[p] # req[p]
           /\ req[p].move_failed)
          => /\ Len(req[p].tmp_results) = Len(req[p].frontier_update_list)
             /\ Len(req[p].frontier_update_list) = 1
                   => latestFileMod'[req[p].frontier_update_list[1][1]]
                          = latestFileMod[req[p].frontier_update_list[1][1]]]_vars

\* C26: when the mover of a call leaves its transaction, for each file of its
\* list whose walk to the requested revision has more than max_csets_proc
\* changesets to apply: with going_forward the file's frontier becomes the
\* requested revision, and without it the frontier stays at the old one and
\* the file is among those handed to get_tuids.
C26_FarFrontier ==
    [][\A p \in Procs :
          (/\ req[p].pc = "move_write" /\ req'[p].pc # "move_write")
          => \A i \in 1..Len(req[p].frontier_update_list) :
                LET f == req[p].frontier_update_list[i][1]
                    old_frontier == req[p].frontier_update_list[i][2]
                IN  NumSteps(req[p].revision, old_frontier) > req[p].max_csets_proc
                    => IF req[p].going_forward
                       THEN latestFileMod'[f] = req[p].revision
                       ELSE /\ latestFileMod'[f] = old_frontier
                            /\ f \in Range(req[p].anns_to_get)]_vars

\* the revisions some call has answered file at
ResolvedAt(f) == {r \in Revs : answered[<<r, f>>] # NotAnswered}

\* C27: when no call is in progress, the frontier of every file that calls
\* have been answered for is the newest of the revisions it was answered at.
C27_FrontierIsNewest ==
    Quiescent =>
        \A f \in Files :
            ResolvedAt(f) # {} =>
                /\ latestFileMod[f] \in ResolvedAt(f)
                /\ \A r \in ResolvedAt(f) : r <= latestFileMod[f]

\* C28: in no state, whatever calls are in progress, does latestFileMod hold
\* a row Frontier(f) = r while no annotation is stored for (r, f): neither a
\* call that reads the tables during another call's transition nor one that
\* reads them after a failed transition finds the frontier without the
\* annotation.
C28_FrontierNeverAhead ==
    \A f \in Files :
        latestFileMod[f] # NoRev => ~IsNone(annotations[<<latestFileMod[f], f>>])

\* the files of a mover's list that no diff of the range it fetches mentions
\* and whose annotation at the old frontier is stored
Rekeyed(r) ==
    {i \in 1..Len(r.frontier_update_list) :
        /\ r.frontier_update_list[i][1] \notin files_to_process(r.frontier_update_list, r.revision)
        /\ ~IsNone(annotations[<<r.frontier_update_list[i][2], r.frontier_update_list[i][1]>>])}

\* C29: when the mover of a call leaves its transaction, for every file of
\* its list that no fetched diff mentions the annotation stored at the
\* requested revision is the one stored at the old frontier (the dummy when
\* that is the dummy) and the file's frontier is the requested revision; a
\* call for such a file alone has allocated no TUID.
C29_UntouchedIsRekeyed ==
    [][\A p \in Procs :
          (/\ req[p].pc = "move_write" /\ req'[p].pc # "move_write")
          => \A i \in Rekeyed(req[p]) :
                LET f == req[p].frontier_update_list[i][1]
                    old_frontier == req[p].frontier_update_list[i][2]
                IN  /\ annotations'[<<req[p].revision, f>>] = annotations'[<<old_frontier, f>>]
                    /\ latestFileMod'[f] = req[p].revision
                    /\ req[p].files = <<f>> => req'[p].allocs = 0]_vars

\* the name upstream gives, at changeset `to`, to the file called name at
\* changeset `from`, following the renames of the changesets between them
RECURSIVE NameAt(_, _, _)
NameAt(name, from, to) ==
    IF from = to THEN name
    ELSE IF from < to
    THEN LET es == get_hg_diff(from + 1).diffs
             hits == {i \in 1..Len(es) : es[i].old = name /\ es[i].new \notin {name, DEVNULL}}
         IN  NameAt(IF hits = {} THEN name ELSE es[CHOOSE i \in hits : TRUE].new, from + 1, to)
    ELSE LET es == get_hg_diff(from).diffs
             hits == {i \in 1..Len(es) : es[i].new = name /\ es[i].old \notin {name, DEVNULL}}
         IN  NameAt(IF hits = {} THEN name ELSE es[CHOOSE i \in hits : TRUE].old, from - 1, to)

\* what a mover has still to insert for file, in the order of insertion
PendingFor(r, file) == SelectSeq(r.recomputed \o r.ann_inserts, LAMBDA e : e.file = file)

Dense(ann) == \A i \in 1..Len(ann) : ann[i].line = i

\* C31: the annotation _apply_diff returns for a dense annotation and the
\* '+' and '-' changes of a changeset of the file is dense: its entries carry
\* the line numbers 1..n in order, and stringify_tuids fills every position
\* of its output with a tuid.
C31_StaysDense ==
    /\ Dense(d_ann)
    /\ Len(stringify_tuids(d_ann)) = Len(d_ann)
    /\ \A i \in 1..Len(stringify_tuids(d_ann)) : stringify_tuids(d_ann)[i] = d_ann[i].tuid

\* a '+' and a '-' change applied by one call, leaving at least two entries
C31_Witness ==
    /\ d_last.kind \in {"edit", "rename", "second"}
    /\ \E i, j \in 1..Len(d_last.diff.diffs[Len(d_last.diff.diffs)].changes) :
          /\ d_last.diff.diffs[Len(d_last.diff.diffs)].changes[i].action = "+"
          /\ d_last.diff.diffs[Len(d_last.diff.diffs)].changes[j].action = "-"
    /\ Len(d_ann) >= 2
    /\ Len(d_last.ann) >= 2

\* C32: a call of get_tuids_from_files on the try repository, whatever it
\* does (try disabled, every file found in the index, json-pushes answering
\* nothing usable, the draft diffs replayed), leaves every row of
\* latestFileMod as it was and adds none.
C32_TryKeepsFrontiers ==
    [][\A p \in Procs :
          (req[p].pc = "idle" /\ req'[p].pc = "done" /\ req'[p].repo = "try")
          => latestFileMod' = latestFileMod]_vars

\* a try call that replayed the draft changeset and stored annotations for
\* the try revision while latestFileMod had rows
C32_Witness ==
    \E p \in Procs :
        /\ req[p].pc = "done"
        /\ req[p].repo = "try"
        /\ req[p].enable_try
        /\ req[p].push = "push"
        /\ req[p].files = <<"a", "b">>
        /\ annotations[<<TryRev, "a">>].k = "list"
        /\ annotations[<<TryRev, "b">>].k = "list"
        /\ \E f \in Files : latestFileMod[f] # NoRev
        /\ latestFileMod = req[p].frontier

\* C35: every slot among the requests to hg that a thread of
\* _get_hg_annotate takes is given back: whenever no such thread is running,
\* num_requests is 0.
C35_SlotsReleased ==
    ann_threads_running = 0 => num_requests = 0

\* C33: the calls of get_tuids_from_files that the daemon makes for a
\* frontier group name the files of the group, revisions after the frontier,
\* each once, the older before the newer, and going_forward = True.
C33_DaemonCalls ==
    daemon.pc \in {"csets", "call"} =>
        \A i \in 1..Len(daemon.calls) :
            /\ daemon.calls[i].files = daemon.files
            /\ daemon.calls[i].revision > daemon.frontier
            /\ \A j \in 1..(i - 1) : daemon.calls[j].revision < daemon.calls[i].revision
            /\ daemon.calls[i].going_forward

\* C34: once please_stop is raised the daemon thread ends, whatever get_clog
\* answers.
C34_StopEnds ==
    please_stop ~> daemon.pc \in {"stopped", "dead"}

\* C36: service_threads_running is never negative, and when a call has
\* returned and every thread that was started has finished it is back to
\* the value it had before the calls, whatever path the call took.
C36_CounterRestored ==
    /\ service_threads_running >= 0
    /\ (flow.pc = "returned" /\ NoWorkers) => service_threads_running = 0

\* C38: a call with etl=true that switched the caching signal off has
\* switched it on again when it has returned and every thread has finished.
C38_CachingResumed ==
    (flow.pc = "returned" /\ NoWorkers /\ flow.switched) => caching_signal

\* C37: a call that returns completed = True returns exactly one (file,
\* annotation) pair for each requested file: every element is a pair, no
\* file is missing and no file appears twice.
C37_OnePairPerFile ==
    \A p \in Procs :
        (req[p].pc = "done" /\ req[p].completed) =>
            LET result == Response(req[p])
            IN  /\ \A i \in 1..Len(result) : result[i] # NotAPair
                /\ \A f \in Range(req[p].files) :
                       Cardinality({i \in 1..Len(result) : result[i].file = f}) = 1
                /\ Len(result) = Len(req[p].files)

\* C39: with threads calling _execute concurrently and a subprocess that
\* answers every command, every call that was started eventually returns.
C39_CallsReturn ==
    \A t \in PyThreads : (py[t].pc = "enter") ~> (py[t].pc = "done")

\* C40: a call that has ended hands back what the subprocess answered to its
\* own command, and current_task is not None when the reader thread or a
\* caller uses it.
C40_OwnResponse ==
    /\ \A t \in PyThreads :
          py[t].pc = "done" =>
              py[t].ret = [kind |-> proxy.answers[py[t].command], of |-> py[t].command]
    /\ reader.failed = 0

====
